---- MODULE Spec2Model ----
(***************************************************************************)
(* A model of the srither Slitherlink solver core.                         *)
(*                                                                         *)
(*   SpecSideMap : the side/edge constraint store (side_map.rs) driven by  *)
(*                 arbitrary sequences of its public set operations.       *)
(*   SpecPool    : a TheoremPool (apply_theorem.rs) over a two-cell board, *)
(*                 driven by apply_all passes and case-split set calls.    *)
(*   SpecSolver  : solve on a small puzzle: the search driver around       *)
(*                 Solver (solver.rs), step by step.                       *)
(***************************************************************************)
EXTENDS Integers, Sequences, FiniteSets, TLC

VARIABLES
    side_map,   \* the SideMap under test: [size, uf, revision]
    ret,        \* history: <<>> before any call, then <<r>>, r the last call's result
    known,      \* history: what the set calls made so far entail
    pool,       \* the TheoremPool under test: [counts, results, index_by_edge]
    calls,      \* history: summaries of the last two calls made on pool and side_map
    puzzle,     \* the puzzle handed to solve: [size, hint, valid]
    driver,     \* the search: [pc, queue, cur, pts, rev, found, result]
    probe,      \* history: the case split just made, or NoProbe
    args,       \* a pure function under test: its inputs, then its result too
    events      \* history of the pool, see NewEvents and ApplyAll

vars == <<side_map, ret, known, pool, calls, puzzle, driver, probe, args, events>>
poolVars == <<pool, calls, events>>
solverVars == <<puzzle, driver, probe>>

(***************************************************************************)
(* Bounds                                                                  *)
(***************************************************************************)
MaxCols == 3        \* the SideMap under test is at most this wide

\* sizes of the SideMap under test: one row of up to MaxCols cells, and one
\* column of two cells (so that a second row is addressed)
Sizes == {<<1, c>> : c \in 1 .. MaxCols} \cup {<<2, 1>>}

(***************************************************************************)
(* Geometry (geom.rs)                                                      *)
(***************************************************************************)
OUTSIDE_CELL_ID == 0
OUTSIDE_POINT == <<-1, -1>>

contains(size, p) ==
    /\ 0 <= p[1] /\ p[1] < size[1]
    /\ 0 <= p[2] /\ p[2] < size[2]

\* point_to_cellid that strides by the number of rows
point_to_cellid_by_rows(size, p) ==
    IF contains(size, p) THEN p[1] * size[1] + p[2] + 1 ELSE OUTSIDE_CELL_ID

point_to_cellid(size, p) ==
    IF contains(size, p) THEN p[1] * size[2] + p[2] + 1 ELSE OUTSIDE_CELL_ID

cellid_to_point(size, id) ==
    IF id = OUTSIDE_CELL_ID THEN OUTSIDE_POINT
    ELSE <<(id - 1) \div size[2], (id - 1) % size[2]>>

\* every point of the grid and of the ring of outside points around it
AllPoints(size) == ((-1) .. size[1]) \X ((-1) .. size[2])
GridPoints(size) == {p \in AllPoints(size) : contains(size, p)}

(***************************************************************************)
(* Union-find: the partition is kept as the map node -> least member of    *)
(* its set.                                                                *)
(***************************************************************************)
Min2(a, b) == IF a < b THEN a ELSE b

UnionFind_new(n) == [k \in 0 .. (n - 1) |-> k]

\* find(a, b): are a and b in the same set?
UnionFind_find(uf, a, b) == uf[a] = uf[b]

\* union(a, b): merge; changed iff the two sets were distinct
UnionFind_union(uf, a, b) ==
    IF uf[a] = uf[b]
    THEN [uf |-> uf, changed |-> FALSE]
    ELSE LET merged == [k \in DOMAIN uf |->
                          IF uf[k] = uf[a] \/ uf[k] = uf[b]
                          THEN Min2(uf[a], uf[b]) ELSE uf[k]]
         IN [uf |-> merged, changed |-> merged # uf]

(***************************************************************************)
(* SideMapInner (side_map.rs)                                              *)
(***************************************************************************)
key0(i) == i * 2
key1(i) == i * 2 + 1

SideMapInner_new(n) == [uf |-> UnionFind_new(n * 2), revision |-> 0]

SideMapInner_is_same(sm, i, j) == UnionFind_find(sm.uf, key0(i), key0(j))
SideMapInner_is_different(sm, i, j) == UnionFind_find(sm.uf, key0(i), key1(j))

\* set_same with the result computed as c1 && c2
SideMapInner_set_same_and(sm, i, j) ==
    LET u1 == UnionFind_union(sm.uf, key0(i), key0(j))
        u2 == UnionFind_union(u1.uf, key1(i), key1(j))
        c  == u1.changed /\ u2.changed
    IN [sm  |-> [sm EXCEPT !.uf = u2.uf,
                           !.revision = IF c THEN @ + 1 ELSE @],
        ret |-> c]

\* set_same that forgets the union of the key1 nodes
SideMapInner_set_same_half(sm, i, j) ==
    LET u1 == UnionFind_union(sm.uf, key0(i), key0(j))
    IN [sm  |-> [sm EXCEPT !.uf = u1.uf,
                           !.revision = IF u1.changed THEN @ + 1 ELSE @],
        ret |-> u1.changed]

\* both unions are always performed; the result is c1 || c2.  revision is a
\* u32 that grows by one per changing call; it stays far below 2^32 on the
\* boards modelled, so the increment is a plain + 1.
SideMapInner_set_same(sm, i, j) ==
    LET u1 == UnionFind_union(sm.uf, key0(i), key0(j))
        u2 == UnionFind_union(u1.uf, key1(i), key1(j))
        c  == u1.changed \/ u2.changed
    IN [sm  |-> [sm EXCEPT !.uf = u2.uf,
                           !.revision = IF c THEN @ + 1 ELSE @],
        ret |-> c]

\* set_different that counts every call as a change
SideMapInner_set_different_always(sm, i, j) ==
    LET u1 == UnionFind_union(sm.uf, key0(i), key1(j))
        u2 == UnionFind_union(u1.uf, key1(i), key0(j))
    IN [sm  |-> [sm EXCEPT !.uf = u2.uf, !.revision = @ + 1],
        ret |-> u1.changed \/ u2.changed]

\* set_different that forgets the union of key1(i) with key0(j)
SideMapInner_set_different_half(sm, i, j) ==
    LET u1 == UnionFind_union(sm.uf, key0(i), key1(j))
    IN [sm  |-> [sm EXCEPT !.uf = u1.uf,
                           !.revision = IF u1.changed THEN @ + 1 ELSE @],
        ret |-> u1.changed]

SideMapInner_set_different(sm, i, j) ==
    LET u1 == UnionFind_union(sm.uf, key0(i), key1(j))
        u2 == UnionFind_union(u1.uf, key1(i), key0(j))
        c  == u1.changed \/ u2.changed
    IN [sm  |-> [sm EXCEPT !.uf = u2.uf,
                           !.revision = IF c THEN @ + 1 ELSE @],
        ret |-> c]

(***************************************************************************)
(* SideMap (side_map.rs)                                                   *)
(***************************************************************************)
SideMap_new(size) ==
    [size |-> size] @@ SideMapInner_new(size[1] * size[2] + 1)

\* cell_id without the + 1 that keeps slot 0 for the outside cell
cell_id_no_offset(sm, p) ==
    IF contains(sm.size, p) THEN p[1] * sm.size[2] + p[2] ELSE OUTSIDE_CELL_ID

cell_id(sm, p) == point_to_cellid(sm.size, p)

is_outside(sm, p) == SideMapInner_is_same(sm, cell_id(sm, p), OUTSIDE_CELL_ID)
is_inside(sm, p) == SideMapInner_is_different(sm, cell_id(sm, p), OUTSIDE_CELL_ID)
is_same(sm, p0, p1) == SideMapInner_is_same(sm, cell_id(sm, p0), cell_id(sm, p1))
is_different(sm, p0, p1) ==
    SideMapInner_is_different(sm, cell_id(sm, p0), cell_id(sm, p1))

\* get_side with the (true, true) arm reporting Unknown
get_side_no_conflict(sm, p) ==
    IF is_inside(sm, p)
    THEN (IF is_outside(sm, p) THEN "Unknown" ELSE "In")
    ELSE (IF is_outside(sm, p) THEN "Out" ELSE "Unknown")

\* match (is_inside, is_outside)
get_side(sm, p) ==
    IF is_inside(sm, p)
    THEN (IF is_outside(sm, p) THEN "Conflict" ELSE "In")
    ELSE (IF is_outside(sm, p) THEN "Out" ELSE "Unknown")

\* get_relation with the Same and Different arms exchanged
get_relation_swapped(sm, p0, p1) ==
    IF is_same(sm, p0, p1)
    THEN (IF is_different(sm, p0, p1) THEN "Conflict" ELSE "Different")
    ELSE (IF is_different(sm, p0, p1) THEN "Same" ELSE "Unknown")

\* match (is_same, is_different)
get_relation(sm, p0, p1) ==
    IF is_same(sm, p0, p1)
    THEN (IF is_different(sm, p0, p1) THEN "Conflict" ELSE "Same")
    ELSE (IF is_different(sm, p0, p1) THEN "Different" ELSE "Unknown")

set_outside(sm, p) == SideMapInner_set_same(sm, cell_id(sm, p), OUTSIDE_CELL_ID)
set_inside(sm, p) == SideMapInner_set_different(sm, cell_id(sm, p), OUTSIDE_CELL_ID)

\* set_side panics on Unknown and Conflict: only In and Out are ever passed
set_side(sm, p, ty) ==
    IF ty = "In" THEN set_inside(sm, p) ELSE set_outside(sm, p)

set_same(sm, p0, p1) == SideMapInner_set_same(sm, cell_id(sm, p0), cell_id(sm, p1))
set_different(sm, p0, p1) ==
    SideMapInner_set_different(sm, cell_id(sm, p0), cell_id(sm, p1))

\* set_relation panics on Unknown and Conflict
set_relation(sm, p0, p1, rel) ==
    IF rel = "Same" THEN set_same(sm, p0, p1) ELSE set_different(sm, p0, p1)

revision(sm) == sm.revision

(***************************************************************************)
(* What a sequence of set calls entails, computed without the union-find.  *)
(* K[i, j] is the set of parities known between cells i and j: 0 for "same *)
(* side", 1 for "different sides".  Facts compose by parity along chains   *)
(* of calls; a cell chained to a contradiction knows both parities.        *)
(***************************************************************************)
CellIds(size) == 0 .. (size[1] * size[2])

NoFacts(size) ==
    [ab \in CellIds(size) \X CellIds(size) |-> IF ab[1] = ab[2] THEN {0} ELSE {}]

Learn(K, i, j, par) ==
    LET ids == {ab[1] : ab \in DOMAIN K}
        \* parities of cell a relative to i, through old facts and the new one
        P == [a \in ids |-> K[a, i] \cup {(x + par) % 2 : x \in K[a, j]}]
    IN IF par \in K[i, j] THEN K
       ELSE IF \E a \in ids : P[a] = {0, 1}
       THEN [ab \in DOMAIN K |->
               IF P[ab[1]] = {} \/ P[ab[2]] = {} THEN K[ab] ELSE {0, 1}]
       ELSE [ab \in DOMAIN K |->
               K[ab] \cup {(x + y) % 2 : x \in P[ab[1]], y \in P[ab[2]]}]

(***************************************************************************)
(* SpecSideMap: a SideMap of some size and any sequence of set operations  *)
(***************************************************************************)
\* points handed to the operations: the grid and a point beyond it
InputPoints(size) == GridPoints(size) \cup {OUTSIDE_POINT}

InitSideMap ==
    /\ \E size \in Sizes : /\ side_map = SideMap_new(size)
                           /\ known = NoFacts(size)
    /\ ret = <<>>
    /\ pool = <<>>
    /\ calls = <<>>
    /\ events = <<>>
    /\ puzzle = <<>>
    /\ driver = <<>>
    /\ probe = <<>>
    /\ args = <<>>

Called(r, p0, p1, par) ==
    /\ side_map' = r.sm
    /\ ret' = <<r.ret>>
    /\ known' = Learn(known, cell_id(side_map, p0), cell_id(side_map, p1), par)
    /\ UNCHANGED <<poolVars, solverVars, args>>

SetSame ==
    \E p0, p1 \in InputPoints(side_map.size) :
        Called(set_same(side_map, p0, p1), p0, p1, 0)

SetDifferent ==
    \E p0, p1 \in InputPoints(side_map.size) :
        Called(set_different(side_map, p0, p1), p0, p1, 1)

SetOutside ==
    \E p \in InputPoints(side_map.size) :
        Called(set_outside(side_map, p), p, OUTSIDE_POINT, 0)

SetInside ==
    \E p \in InputPoints(side_map.size) :
        Called(set_inside(side_map, p), p, OUTSIDE_POINT, 1)

SetSide ==
    \E p \in InputPoints(side_map.size), ty \in {"In", "Out"} :
        Called(set_side(side_map, p, ty), p, OUTSIDE_POINT,
               IF ty = "In" THEN 1 ELSE 0)

SetRelation ==
    \E p0, p1 \in InputPoints(side_map.size), rel \in {"Same", "Different"} :
        Called(set_relation(side_map, p0, p1, rel), p0, p1,
               IF rel = "Different" THEN 1 ELSE 0)

NextSideMap ==
    \/ SetSame
    \/ SetDifferent
    \/ SetOutside
    \/ SetInside
    \/ SetSide
    \/ SetRelation

SpecSideMap == InitSideMap /\ [][NextSideMap]_vars

(***************************************************************************)
(* TheoremPool (apply_theorem.rs).  Theorems are numbered from 1 and the   *)
(* index positions r, w count from 1.                                      *)
(***************************************************************************)
\* State<Edge> of the pair (i, j) of cell ids
get_edge(sm, i, j) ==
    IF SideMapInner_is_same(sm, i, j)
    THEN (IF SideMapInner_is_different(sm, i, j) THEN "Conflict" ELSE "Cross")
    ELSE (IF SideMapInner_is_different(sm, i, j) THEN "Line" ELSE "Unknown")

\* Line => set_different, Cross => set_same
set_edge(sm, i, j, e) ==
    IF e = "Line" THEN SideMapInner_set_different(sm, i, j)
    ELSE SideMapInner_set_same(sm, i, j)

\* pat.apply(side_map): the returned flag is dropped
EdgePattern_apply(sm, pat) ==
    set_edge(sm, pat.points[1], pat.points[2], pat.edge).sm

\* accessors of a TheoremMatcher [matcher: set of patterns, result: patterns]
num_matcher(m) == Cardinality(m.matcher)
matcher_edges(m) == m.matcher
result_edges(m) == m.result

\* the numbers of the matchers that have the matcher edge pat, ascending
RECURSIVE Expecting(_, _, _)
Expecting(matchers, pat, i) ==
    IF i > Len(matchers) THEN <<>>
    ELSE (IF pat \in matcher_edges(matchers[i]) THEN <<i>> ELSE <<>>)
             \o Expecting(matchers, pat, i + 1)

\* the pool whose counts are all 1
TheoremPool_new_count_one(matchers, order) ==
    [counts  |-> [i \in 1 .. Len(matchers) |-> 1],
     results |-> [i \in 1 .. Len(matchers) |-> result_edges(matchers[i])],
     index_by_edge |->
         [k \in 1 .. Len(order) |->
             [points       |-> order[k],
              expect_line  |->
                  Expecting(matchers, [edge |-> "Line", points |-> order[k]], 1),
              expect_cross |->
                  Expecting(matchers, [edge |-> "Cross", points |-> order[k]], 1)]]]

\* the pool built from the merged matcher list; order is the order in which
\* the hash map hands out the indexed pairs
TheoremPool_new(matchers, order) ==
    [counts  |-> [i \in 1 .. Len(matchers) |-> num_matcher(matchers[i])],
     results |-> [i \in 1 .. Len(matchers) |-> result_edges(matchers[i])],
     index_by_edge |->
         [k \in 1 .. Len(order) |->
             [points       |-> order[k],
              expect_line  |->
                  Expecting(matchers, [edge |-> "Line", points |-> order[k]], 1),
              expect_cross |->
                  Expecting(matchers, [edge |-> "Cross", points |-> order[k]], 1)]]]

\* invalidate that leaves one pattern to confirm
invalidate_to_one(st, i) == [st EXCEPT !.pool.counts[i] = 1]

invalidate(st, i) == [st EXCEPT !.pool.counts[i] = 0]

RECURSIVE ApplyResult(_, _, _)
ApplyResult(sm, result, k) ==
    IF k > Len(result) THEN sm
    ELSE ApplyResult(EdgePattern_apply(sm, result[k]), result, k + 1)

\* update that applies the results at every count but 0
update_eager(st, i) ==
    IF st.pool.counts[i] = 0 THEN st
    ELSE [pool     |-> [st.pool EXCEPT !.counts[i] = @ - 1],
          side_map |-> ApplyResult(st.side_map, st.pool.results[i], 1)]

\* st is the pair [pool, side_map] the pass works on
update(st, i) ==
    IF st.pool.counts[i] = 0 THEN st
    ELSE IF st.pool.counts[i] = 1
    THEN [pool     |-> [st.pool EXCEPT !.counts[i] = 0],
          side_map |-> ApplyResult(st.side_map, st.pool.results[i], 1)]
    ELSE [st EXCEPT !.pool.counts[i] = @ - 1]

\* st also carries log, the calls of the pass so far: the call, the count and
\* the SideMap it met and those it left, and whether it left the rest of the
\* pool alone; and exam, the entries the pass has read so far
Logged(ev, i, st, nx) ==
    [pool     |-> nx.pool,
     side_map |-> nx.side_map,
     exam     |-> st.exam,
     log      |-> Append(st.log,
                     [ev |-> ev, i |-> i,
                      count |-> st.pool.counts[i],
                      after |-> nx.pool.counts[i],
                      sm_before |-> st.side_map,
                      sm_after |-> nx.side_map,
                      rest_same |->
                          nx.pool = [st.pool EXCEPT
                                        !.counts[i] = nx.pool.counts[i]]])]

RECURSIVE InvalidateEach(_, _, _)
InvalidateEach(st, list, k) ==
    IF k > Len(list) THEN st
    ELSE InvalidateEach(Logged("invalidate", list[k], st, invalidate(st, list[k])),
                        list, k + 1)

RECURSIVE UpdateEach(_, _, _)
UpdateEach(st, list, k) ==
    IF k > Len(list) THEN st
    ELSE UpdateEach(Logged("update", list[k], st, update(st, list[k])),
                    list, k + 1)

\* swap that moves nothing
swap_nothing(seq, a, b) == seq

swap(seq, a, b) == [seq EXCEPT ![a] = seq[b], ![b] = seq[a]]

\* nx with the entry read at position r added to exam: the entry, the
\* SideMap and the edge state it met, and the positions first .. last of its
\* calls in the log
Examined(st, nx, r, e) ==
    [nx EXCEPT !.exam = Append(@, [r     |-> r,
                                   ibe   |-> st.pool.index_by_edge[r],
                                   edge  |-> e,
                                   sm    |-> st.side_map,
                                   first |-> Len(st.log) + 1,
                                   last  |-> Len(nx.log)])]

\* the loop of apply_all from read position r with write position w; the
\* result carries the write position reached and whether the pass got
\* through (ok) or met a Conflict edge
RECURSIVE apply_all_loop(_, _, _)
apply_all_loop(st, r, w) ==
    IF r > Len(st.pool.index_by_edge)
    THEN [pool |-> st.pool, side_map |-> st.side_map, w |-> w, ok |-> TRUE,
          log |-> st.log, exam |-> st.exam]
    ELSE LET ibe == st.pool.index_by_edge[r]
             e   == get_edge(st.side_map, ibe.points[1], ibe.points[2])
         IN IF e = "Cross"
            THEN apply_all_loop(
                     Examined(st,
                              UpdateEach(InvalidateEach(st, ibe.expect_line, 1),
                                         ibe.expect_cross, 1), r, e),
                     r + 1, w)
            ELSE IF e = "Line"
            THEN apply_all_loop(
                     Examined(st,
                              InvalidateEach(UpdateEach(st, ibe.expect_line, 1),
                                             ibe.expect_cross, 1), r, e),
                     r + 1, w)
            ELSE IF e = "Unknown"
            THEN apply_all_loop(
                     Examined(st,
                              [st EXCEPT !.pool.index_by_edge = swap(@, w, r)],
                              r, e),
                     r + 1, w + 1)
            ELSE [pool |-> st.pool, side_map |-> st.side_map, w |-> w,
                  ok |-> FALSE, log |-> st.log,
                  exam |-> Examined(st, st, r, e).exam]

\* apply_all that keeps the whole index after the pass
apply_all_no_truncate(p, sm) ==
    LET done == apply_all_loop([pool |-> p, side_map |-> sm, log |-> <<>>,
                                exam |-> <<>>], 1, 1)
    IN [pool |-> done.pool, side_map |-> done.side_map, ok |-> done.ok,
        log |-> done.log, exam |-> done.exam]

\* apply_all that truncates the index one entry late
apply_all_truncate_late(p, sm) ==
    LET done == apply_all_loop([pool |-> p, side_map |-> sm, log |-> <<>>,
                                exam |-> <<>>], 1, 1)
    IN [pool |-> IF done.ok
                 THEN [done.pool EXCEPT
                          !.index_by_edge = SubSeq(@, 1, Min2(done.w, Len(@)))]
                 ELSE done.pool,
        side_map |-> done.side_map,
        ok |-> done.ok,
        log |-> done.log,
        exam |-> done.exam]

\* apply_all that truncates the index on the early return too
apply_all_truncate_always(p, sm) ==
    LET done == apply_all_loop([pool |-> p, side_map |-> sm, log |-> <<>>,
                                exam |-> <<>>], 1, 1)
    IN [pool |-> [done.pool EXCEPT
                     !.index_by_edge = SubSeq(@, 1, done.w - 1)],
        side_map |-> done.side_map,
        ok |-> done.ok,
        log |-> done.log,
        exam |-> done.exam]

\* one pass; the index is truncated to the kept entries unless the pass
\* returned early on a Conflict edge
apply_all(p, sm) ==
    LET done == apply_all_loop([pool |-> p, side_map |-> sm, log |-> <<>>,
                                exam |-> <<>>], 1, 1)
    IN [pool |-> IF done.ok
                 THEN [done.pool EXCEPT
                          !.index_by_edge = SubSeq(@, 1, done.w - 1)]
                 ELSE done.pool,
        side_map |-> done.side_map,
        ok |-> done.ok,
        log |-> done.log,
        exam |-> done.exam]

(***************************************************************************)
(* SpecPool: a pool over the board of two cells, and any sequence of       *)
(* apply_all passes and case-split set calls                               *)
(***************************************************************************)
MaxTheorems == 2    \* matchers in the pool
MaxMatcher == 2     \* edge patterns in one matcher

PoolSize == <<1, 2>>
\* the pairs of cell ids a matcher edge may name (the border edges of the two
\* cells) and those a result may name (those and the edge between the cells)
MatcherPairs == {<<OUTSIDE_CELL_ID, id>> : id \in CellIds(PoolSize) \ {OUTSIDE_CELL_ID}}
ResultPairs == {ab \in CellIds(PoolSize) \X CellIds(PoolSize) : ab[1] < ab[2]}
Edges == {"Line", "Cross"}

PatternsOn(pairs) == [edge : Edges, points : pairs]

\* matcher sets: up to MaxMatcher patterns, no pair named twice
MatcherSets ==
    {m \in SUBSET PatternsOn(MatcherPairs) :
        /\ m # {}
        /\ Cardinality(m) <= MaxMatcher
        /\ \A x, y \in m : x.points = y.points => x = y}

\* a matcher with one result edge, on a pair the matcher does not name
TheoremMatchers ==
    UNION {{[matcher |-> m, result |-> <<x>>] :
               x \in {y \in PatternsOn(ResultPairs) :
                        \A z \in m : z.points # y.points}} :
           m \in MatcherSets}

\* an arbitrary fixed enumeration, used to list a set once
RECURSIVE SetToSeq(_)
SetToSeq(S) ==
    IF S = {} THEN <<>>
    ELSE LET x == CHOOSE y \in S : TRUE IN <<x>> \o SetToSeq(S \ {x})

\* the subsets of S of at most k elements
RECURSIVE SubsetsUpTo(_, _)
SubsetsUpTo(S, k) ==
    IF k = 0 THEN {{}}
    ELSE LET smaller == SubsetsUpTo(S, k - 1)
         IN smaller \cup {T \cup {x} : T \in smaller, x \in S}

\* merged matcher lists: no two entries have the same matcher set
MatcherLists ==
    {SetToSeq(T) : T \in {U \in SubsetsUpTo(TheoremMatchers, MaxTheorems) :
        /\ U # {}
        /\ \A a, b \in U : a.matcher = b.matcher => a = b}}

IndexedPairs(matchers) ==
    {x.points : x \in UNION {matchers[i].matcher : i \in 1 .. Len(matchers)}}

Orders(S) ==
    {o \in [1 .. Cardinality(S) -> S] : \A a, b \in DOMAIN o : o[a] = o[b] => a = b}

NoCall == [op |-> "none", ok |-> TRUE, changed |-> FALSE]

\* the matcher edges of a matcher list, each with the number of its theorem
MatcherEdges(matchers) ==
    UNION {{<<i, pat>> : pat \in matcher_edges(matchers[i])} :
           i \in 1 .. Len(matchers)}

\* the history of a pool just built from matchers, of which p is the pool
NewEvents(matchers, p) ==
    [dead     |-> {},
     fired    |-> [i \in 1 .. Len(matchers) |-> 0],
     log      |-> <<>>,
     exam     |-> <<>>,
     matchers |-> matchers,
     before   |-> p,
     disp     |-> [ab \in IndexedPairs(matchers) |-> 0],
     conf     |-> [ip \in MatcherEdges(matchers) |-> 0],
     failed   |-> FALSE,
     retried  |-> FALSE]

InitPool ==
    /\ side_map = SideMap_new(PoolSize)
    /\ \E matchers \in MatcherLists :
         \E order \in Orders(IndexedPairs(matchers)) :
             /\ pool = TheoremPool_new(matchers, order)
             /\ events = NewEvents(matchers, pool)
    /\ calls = <<NoCall, NoCall>>
    /\ ret = <<>>
    /\ known = <<>>
    /\ puzzle = <<>>
    /\ driver = <<>>
    /\ probe = <<>>
    /\ args = <<>>

Record(op, ok, sm) ==
    calls' = <<calls[2],
               [op |-> op, ok |-> ok,
                changed |-> revision(sm) # revision(side_map)]>>

\* the theorems whose results a logged update call applied
Fired(log, i) ==
    Cardinality({k \in DOMAIN log :
        log[k].ev = "update" /\ log[k].i = i /\ log[k].count = 1})

Invalidated(log) == {log[k].i : k \in {j \in DOMAIN log : log[j].ev = "invalidate"}}

\* how often the entries read in exam met a Line or Cross edge at the pair ab
Dispatches(exam, ab) ==
    Cardinality({k \in DOMAIN exam :
        exam[k].ibe.points = ab /\ exam[k].edge \in {"Line", "Cross"}})

\* how many of the first k calls in log are update(i) calls made for an entry
\* of the pair of pat that was read with the edge of pat
Confirms(log, exam, i, pat, k) ==
    Cardinality({j \in 1 .. k :
        /\ log[j].ev = "update"
        /\ log[j].i = i
        /\ \E x \in DOMAIN exam :
              /\ exam[x].first <= j
              /\ j <= exam[x].last
              /\ exam[x].ibe.points = pat.points
              /\ exam[x].edge = pat.edge})

\* Solver::apply_all_theorem.  events keeps the calls of this pass (log) and
\* the entries it read (exam), the pool it started from (before), the
\* theorems invalidated in the passes before it (dead), how often each
\* theorem has had its results applied so far (fired), how often each indexed
\* pair has had its theorems called so far, counted up to 2 (disp), how often
\* each matcher edge was confirmed in the passes before it, counted up to 2
\* (conf), whether a
\* pass has returned the error (failed) and whether a pass has run after one
\* that returned the error (retried).
ApplyAll ==
    LET done == apply_all(pool, side_map)
    IN /\ pool' = done.pool
       /\ side_map' = done.side_map
       /\ events' = [dead     |-> events.dead \cup Invalidated(events.log),
                     fired    |-> [i \in DOMAIN events.fired |->
                                     events.fired[i] + Fired(done.log, i)],
                     log      |-> done.log,
                     exam     |-> done.exam,
                     matchers |-> events.matchers,
                     before   |-> pool,
                     disp     |-> [ab \in DOMAIN events.disp |->
                                     Min2(2, events.disp[ab]
                                               + Dispatches(done.exam, ab))],
                     conf     |-> [ip \in DOMAIN events.conf |->
                                     Min2(2, events.conf[ip]
                                               + Confirms(events.log, events.exam,
                                                          ip[1], ip[2],
                                                          Len(events.log)))],
                     failed   |-> events.failed \/ ~done.ok,
                     retried  |-> events.retried \/ events.failed]
       /\ Record("apply_all", done.ok, done.side_map)
       /\ UNCHANGED <<ret, known, solverVars, args>>

\* the case split of the search: Solver::set_inside / set_outside on a cell
\* whose side is Unknown
PoolSetSide ==
    \E p \in GridPoints(PoolSize), ty \in {"In", "Out"} :
        LET r == set_side(side_map, p, ty)
        IN /\ get_side(side_map, p) = "Unknown"
           /\ side_map' = r.sm
           /\ Record("set_side", TRUE, r.sm)
           /\ UNCHANGED <<pool, events, ret, known, solverVars, args>>

NextPool ==
    \/ ApplyAll
    \/ PoolSetSide

SpecPool == InitPool /\ [][NextPool]_vars

Pts == InputPoints(side_map.size)
Id(p) == cell_id(side_map, p)

Opposite(s) == IF s = "In" THEN "Out" ELSE "In"

\* C3: over any sequence of SideMap mutations, get_side(p) only moves
\* forward along Unknown -> Fixed(s) -> Conflict: it never returns to
\* Unknown, never changes between In and Out, and never leaves Conflict.
\* A step respects that order iff the side is kept, was Unknown, or becomes
\* Conflict.
C3_SideMonotone ==
    [][\A p \in Pts :
         \/ get_side(side_map', p) = get_side(side_map, p)
         \/ get_side(side_map, p) = "Unknown"
         \/ get_side(side_map', p) = "Conflict"]_vars

\* a conflict reaches every cell that has a side, and no other cell
C3_Witness ==
    /\ side_map.size = <<1, 3>>
    /\ ret = <<TRUE>>
    /\ get_side(side_map, <<0, 0>>) = "Conflict"
    /\ get_side(side_map, <<0, 1>>) = "Conflict"
    /\ get_side(side_map, <<0, 2>>) = "Unknown"

\* C4: once p and q have been set to the same side (set_edge Cross), in
\* every later state get_side(p) and get_side(q) agree; once they have been
\* set to different sides (set_edge Line), whenever one of them is Fixed(s)
\* the other is Fixed(opposite of s).
C4_EdgeSideConsistency ==
    \A p, q \in Pts :
        /\ 0 \in known[Id(p), Id(q)] =>
              get_side(side_map, p) = get_side(side_map, q)
        /\ 1 \in known[Id(p), Id(q)] =>
              \A s \in {"In", "Out"} :
                  get_side(side_map, p) = s =>
                      get_side(side_map, q) = Opposite(s)

C4_Witness ==
    /\ side_map.size = <<1, 3>>
    /\ known[1, 2] = {1}
    /\ known[2, 3] = {0}
    /\ get_side(side_map, <<0, 0>>) = "In"
    /\ get_side(side_map, <<0, 1>>) = "Out"
    /\ get_side(side_map, <<0, 2>>) = "Out"

\* C6: a set call returns true iff the union-find partition changed;
\* revision grows by exactly 1 when it returns true and is unchanged when it
\* returns false; repeating the same call immediately returns false.
C6_ReturnAndRevision ==
    /\ [][/\ ret' # <<>>
          /\ ret'[1] <=> (side_map'.uf # side_map.uf)
          /\ revision(side_map') =
                revision(side_map) + (IF ret'[1] THEN 1 ELSE 0)]_vars
    /\ [](\A p0, p1 \in Pts : \A rel \in {"Same", "Different"} :
             LET first == set_relation(side_map, p0, p1, rel)
                 again == set_relation(first.sm, p0, p1, rel)
             IN ~again.ret /\ again.sm = first.sm)

C6_Witness ==
    /\ ret = <<FALSE>>
    /\ revision(side_map) = 3

\* C8 as stated: the lookup returns Same if p and q are known to be on the
\* same side, Different if they are known to be on different sides, and
\* Unknown otherwise, and it is the same for (p, q) and (q, p).
C8_LookupThreeValued ==
    \A p, q \in Pts :
        /\ get_relation(side_map, p, q) =
              IF 0 \in known[Id(p), Id(q)] THEN "Same"
              ELSE IF 1 \in known[Id(p), Id(q)] THEN "Different"
              ELSE "Unknown"
        /\ get_relation(side_map, p, q) = get_relation(side_map, q, p)

\* C8 amended: the lookup returns Conflict for a pair known to be both on
\* the same side and on different sides; otherwise Same, Different or
\* Unknown as stated; and it is the same for (p, q) and (q, p).
C8_LookupFourValued ==
    \A p, q \in Pts :
        /\ get_relation(side_map, p, q) =
              CASE known[Id(p), Id(q)] = {}     -> "Unknown"
                [] known[Id(p), Id(q)] = {0}    -> "Same"
                [] known[Id(p), Id(q)] = {1}    -> "Different"
                [] known[Id(p), Id(q)] = {0, 1} -> "Conflict"
        /\ get_relation(side_map, p, q) = get_relation(side_map, q, p)

C8_Witness ==
    /\ side_map.size = <<1, 3>>
    /\ get_relation(side_map, <<0, 0>>, <<0, 1>>) = "Conflict"
    /\ get_relation(side_map, <<0, 2>>, OUTSIDE_POINT) = "Different"
    /\ get_relation(side_map, <<0, 0>>, <<0, 2>>) = "Unknown"

\* no cell is on the opposite side of itself
ConflictFree(sm) ==
    \A i \in CellIds(sm.size) : ~UnionFind_find(sm.uf, key0(i), key1(i))

\* C9: in a conflict-free SideMap relations compose by parity (Same.Same =
\* Same, Same.Different = Different, Different.Different = Same), the
\* outside cell included, and a cell that no chain of set calls links to p
\* has neither a Same nor a Different relation to p.
C9_ParityComposition ==
    ConflictFree(side_map) =>
        \A a, b, c \in Pts :
            LET Rel(x, y) == get_relation(side_map, x, y)
            IN /\ Rel(a, b) = "Same" /\ Rel(b, c) = "Same" => Rel(a, c) = "Same"
               /\ Rel(a, b) = "Same" /\ Rel(b, c) = "Different" =>
                     Rel(a, c) = "Different"
               /\ Rel(a, b) = "Different" /\ Rel(b, c) = "Same" =>
                     Rel(a, c) = "Different"
               /\ Rel(a, b) = "Different" /\ Rel(b, c) = "Different" =>
                     Rel(a, c) = "Same"
               /\ known[Id(a), Id(b)] = {} => Rel(a, b) = "Unknown"
               /\ Rel(a, OUTSIDE_POINT) = "Same" <=> get_side(side_map, a) = "Out"
               /\ Rel(a, OUTSIDE_POINT) = "Different" <=>
                     get_side(side_map, a) = "In"

\* the unit test set_and_check: set_outside(p0), set_same(p0, p1),
\* set_inside(p2)
C9_Witness ==
    /\ side_map.size = <<1, 3>>
    /\ ConflictFree(side_map)
    /\ revision(side_map) = 3
    /\ get_side(side_map, <<0, 0>>) = "Out"
    /\ get_side(side_map, <<0, 1>>) = "Out"
    /\ get_relation(side_map, <<0, 0>>, <<0, 1>>) = "Same"
    /\ get_relation(side_map, <<0, 1>>, <<0, 2>>) = "Different"

\* C7: immediately after SideMap construction, get_side(p) is Out for every
\* point p outside the grid, Unknown for every interior cell, and revision
\* is 0.
C7_FreshSideMap ==
    ret = <<>> =>
        /\ \A p \in AllPoints(side_map.size) :
             get_side(side_map, p) =
                IF contains(side_map.size, p) THEN "Unknown" ELSE "Out"
        /\ revision(side_map) = 0

C7_Witness ==
    /\ ret = <<>>
    /\ side_map.size = <<1, 3>>
    /\ get_side(side_map, <<0, 2>>) = "Unknown"
    /\ get_side(side_map, <<0, 3>>) = "Out"

(***************************************************************************)
(* Solver (solver.rs), addressed by cell id                                *)
(***************************************************************************)
UP == <<-1, 0>>
RIGHT == <<0, 1>>
DOWN == <<1, 0>>
LEFT == <<0, -1>>
ALL_DIRECTIONS == <<UP, RIGHT, DOWN, LEFT>>

\* Point + Move
add(p, m) == <<p[1] + m[1], p[2] + m[2]>>

\* the outside cell and the grid cells
cell_len(size) == size[1] * size[2] + 1

\* the cells across the four edges of cell id (the outside cell on the border)
Neighbours(size, id) ==
    [k \in DOMAIN ALL_DIRECTIONS |->
        point_to_cellid(size, add(cellid_to_point(size, id), ALL_DIRECTIONS[k]))]

Solver_get_side(sm, id) == get_side(sm, cellid_to_point(sm.size, id))

\* set_inside that fixes the cell to the outside
Solver_set_inside_out(sm, id) == set_outside(sm, cellid_to_point(sm.size, id)).sm

Solver_set_inside(sm, id) == set_inside(sm, cellid_to_point(sm.size, id)).sm

\* set_outside that leaves the SideMap as it is
Solver_set_outside_noop(sm, id) == sm

Solver_set_outside(sm, id) == set_outside(sm, cellid_to_point(sm.size, id)).sm

\* every grid cell has a side
all_filled(sm) ==
    \A id \in 1 .. (cell_len(sm.size) - 1) : Solver_get_side(sm, id) # "Unknown"

\* ConnectMap::sync fails iff a region holds both In and Out evidence
sync_connection(sm) ==
    \A i \in 0 .. (cell_len(sm.size) - 1) :
        ~UnionFind_find(sm.uf, key0(i), key1(i))

\* two cells (or a border cell and the outside cell) share an edge
Adjacent(size, a, b) ==
    /\ a # b
    /\ \E k \in DOMAIN ALL_DIRECTIONS :
          Neighbours(size, a)[k] = b \/ Neighbours(size, b)[k] = a

\* regions: every cell takes the least label among itself and the adjacent
\* cells known to be on its side, until nothing changes
RECURSIVE RegionLabels(_, _)
RegionLabels(sm, lab) ==
    LET least(S) == CHOOSE x \in S : \A y \in S : x <= y
        nxt == [i \in DOMAIN lab |->
                  least({lab[i]} \cup
                        {lab[j] : j \in {n \in DOMAIN lab :
                            /\ Adjacent(sm.size, i, n)
                            /\ SideMapInner_is_same(sm, i, n)}})]
    IN IF nxt = lab THEN lab ELSE RegionLabels(sm, nxt)

\* ConnectMap::count_area: the number of same-side regions
count_area(sm) ==
    LET lab == RegionLabels(sm, [i \in 0 .. (cell_len(sm.size) - 1) |-> i])
    IN Cardinality({lab[i] : i \in DOMAIN lab})

\* validate_result without the area count
validate_result_sync_only(sm) == sync_connection(sm)

\* TRUE for Ok(()), FALSE for the invalid-board error
validate_result(sm) ==
    IF ~sync_connection(sm) THEN FALSE
    ELSE IF count_area(sm) # 2 THEN FALSE
    ELSE TRUE

\* the number of unknown edges around the region labelled id
unknown_edge_len(sm, lab, id) ==
    Cardinality({jk \in (DOMAIN lab) \X (DOMAIN ALL_DIRECTIONS) :
        /\ lab[jk[1]] = id
        /\ get_edge(sm, jk[1], Neighbours(sm.size, jk[1])[jk[2]]) = "Unknown"})

\* stable sort by ascending count
RECURSIVE SortByCount(_, _)
SortByCount(S, cnt) ==
    IF S = {} THEN <<>>
    ELSE LET m == CHOOSE x \in S : \A y \in S :
                      cnt[x] < cnt[y] \/ (cnt[x] = cnt[y] /\ x <= y)
         IN <<m>> \o SortByCount(S \ {m}, cnt)

\* the representatives of the regions of unknown side, fewest unknown edges
\* first
get_unknown_points(sm) ==
    LET lab  == RegionLabels(sm, [i \in 0 .. (cell_len(sm.size) - 1) |-> i])
        reps == {i \in DOMAIN lab :
                    lab[i] = i /\ Solver_get_side(sm, i) = "Unknown"}
    IN SortByCount(reps, [i \in reps |-> unknown_edge_len(sm, lab, i)])

\* first loop of mark_common: the sides both branches fix alike
RECURSIVE CommonSides(_, _, _, _)
CommonSides(parent, s0, s1, i) ==
    IF i >= cell_len(parent.size) THEN parent
    ELSE LET side == Solver_get_side(s0, i)
         IN CommonSides(
                IF side \in {"In", "Out"} /\ Solver_get_side(s1, i) = side
                THEN set_side(parent, cellid_to_point(parent.size, i), side).sm
                ELSE parent,
                s0, s1, i + 1)

\* second and third loop of mark_common: the edges between cells i and i + d
\* that both branches fix alike
RECURSIVE CommonEdges(_, _, _, _, _)
CommonEdges(parent, s0, s1, i, d) ==
    IF i >= cell_len(parent.size) - d THEN parent
    ELSE LET e == get_edge(s0, i, i + d)
         IN CommonEdges(
                IF e \in {"Line", "Cross"} /\ get_edge(s1, i, i + d) = e
                THEN set_edge(parent, i, i + d, e).sm
                ELSE parent,
                s0, s1, i + 1, d)

\* mark_common that copies what the first branch fixes
mark_common_first(parent, s0, s1) ==
    CommonEdges(
        CommonEdges(CommonSides(parent, s0, s0, 0), s0, s0, 0, 1),
        s0, s0, 0, parent.size[2])

mark_common(parent, s0, s1) ==
    CommonEdges(
        CommonEdges(CommonSides(parent, s0, s1, 0), s0, s1, 0, 1),
        s0, s1, 0, parent.size[2])

\* the completed puzzle: the side of every grid cell
complete_puzzle(sm) ==
    [id \in 1 .. (cell_len(sm.size) - 1) |-> Solver_get_side(sm, id)]

(***************************************************************************)
(* Propagation.  The theorems are taken to be the two rules of a hint: a   *)
(* cell with as many Line edges as its hint has its other edges Cross, a   *)
(* cell with as many Cross edges as the hint leaves has its other edges    *)
(* Line, and a cell with too many of either makes the board invalid.       *)
(* st is [ok, sm]: ok is FALSE once the board is found invalid.            *)
(***************************************************************************)
EdgesAround(sm, id) ==
    [k \in DOMAIN ALL_DIRECTIONS |-> get_edge(sm, id, Neighbours(sm.size, id)[k])]

CountOf(es, e) == Cardinality({k \in DOMAIN es : es[k] = e})

RECURSIVE SetUnknownEdges(_, _, _, _)
SetUnknownEdges(sm, id, e, k) ==
    IF k > Len(ALL_DIRECTIONS) THEN sm
    ELSE LET n == Neighbours(sm.size, id)[k]
         IN SetUnknownEdges(
                IF get_edge(sm, id, n) = "Unknown" THEN set_edge(sm, id, n, e).sm
                ELSE sm,
                id, e, k + 1)

HintRule(pz, st, id) ==
    IF ~st.ok \/ pz.hint[id] = <<>> THEN st
    ELSE LET h       == pz.hint[id][1]
             es      == EdgesAround(st.sm, id)
             lines   == CountOf(es, "Line")
             crosses == CountOf(es, "Cross")
         IN IF \/ CountOf(es, "Conflict") > 0
               \/ lines > h
               \/ crosses > Len(ALL_DIRECTIONS) - h
            THEN [ok |-> FALSE, sm |-> st.sm]
            ELSE IF lines = h
            THEN [ok |-> TRUE, sm |-> SetUnknownEdges(st.sm, id, "Cross", 1)]
            ELSE IF crosses = Len(ALL_DIRECTIONS) - h
            THEN [ok |-> TRUE, sm |-> SetUnknownEdges(st.sm, id, "Line", 1)]
            ELSE st

RECURSIVE HintPass(_, _, _)
HintPass(pz, st, id) ==
    IF id >= cell_len(pz.size) THEN st
    ELSE HintPass(pz, HintRule(pz, st, id), id + 1)

\* passes are repeated until one leaves the revision unchanged
RECURSIVE Propagate(_, _)
Propagate(pz, sm) ==
    LET st == HintPass(pz, [ok |-> TRUE, sm |-> sm], 1)
    IN IF ~st.ok THEN st
       ELSE IF revision(st.sm) # revision(sm) THEN Propagate(pz, st.sm)
       ELSE st

(***************************************************************************)
(* The Slitherlink rules, stated on side assignments f: cell id -> side    *)
(***************************************************************************)
SideAt(f, id) == IF id = OUTSIDE_CELL_ID THEN "Out" ELSE f[id]

\* the Line edges around a cell: the neighbours on the other side
LinesAround(size, f, id) ==
    Cardinality({k \in DOMAIN ALL_DIRECTIONS :
                    SideAt(f, Neighbours(size, id)[k]) # f[id]})

RECURSIVE Grow(_, _, _)
Grow(size, S, R) ==
    LET R2 == R \cup {x \in S : \E y \in R : Adjacent(size, x, y)}
    IN IF R2 = R THEN R ELSE Grow(size, S, R2)

Connected(size, S) ==
    S = {} \/ Grow(size, S, {CHOOSE x \in S : TRUE}) = S

\* one closed loop: one inside region and one outside region; and every
\* hint counts the Line edges around its cell
IsSolution(pz, f) ==
    LET inside  == {id \in DOMAIN f : f[id] = "In"}
        outside == {OUTSIDE_CELL_ID} \cup {id \in DOMAIN f : f[id] = "Out"}
    IN /\ inside # {}
       /\ Connected(pz.size, inside)
       /\ Connected(pz.size, outside)
       /\ \A id \in DOMAIN f :
             pz.hint[id] # <<>> => LinesAround(pz.size, f, id) = pz.hint[id][1]

ValidSolutions(pz) ==
    {f \in [1 .. (cell_len(pz.size) - 1) -> {"In", "Out"}] : IsSolution(pz, f)}

(***************************************************************************)
(* SpecSolver: solve(puzzle), the search driver step by step               *)
(***************************************************************************)
MaxPuzzleCells == 4     \* grid cells of the puzzle
MaxHints == 2           \* cells of the puzzle that bear a hint

PuzzleSizes ==
    {sz \in (1 .. MaxPuzzleCells) \X (1 .. MaxPuzzleCells) :
        sz[1] * sz[2] <= MaxPuzzleCells}

HintValues == {<<>>} \cup {<<h>> : h \in 0 .. 3}

Puzzles ==
    UNION {{[size |-> sz, hint |-> g] :
               g \in {h \in [1 .. (cell_len(sz) - 1) -> HintValues] :
                        Cardinality({i \in DOMAIN h : h[i] # <<>>}) <= MaxHints}} :
           sz \in PuzzleSizes}

NoProbe == [p |-> OUTSIDE_CELL_ID, in_ok |-> TRUE, out_ok |-> TRUE, parent |-> <<>>]

InitSolver ==
    /\ \E pz \in Puzzles :
          /\ puzzle = [size |-> pz.size, hint |-> pz.hint,
                       valid |-> ValidSolutions(pz)]
          /\ driver = [pc |-> "next", queue |-> <<SideMap_new(pz.size)>>,
                       cur |-> <<>>, pts |-> <<>>, rev |-> 0,
                       found |-> <<>>, result |-> "none"]
    /\ probe = NoProbe
    /\ args = <<>>
    /\ side_map = <<>>
    /\ ret = <<>>
    /\ known = <<>>
    /\ pool = <<>>
    /\ calls = <<>>
    /\ events = <<>>

Step(d, pr) ==
    /\ driver' = d
    /\ probe' = pr
    /\ UNCHANGED <<side_map, ret, known, pool, calls, events, puzzle, args>>

Dropped == [driver EXCEPT !.pc = "next", !.cur = <<>>, !.pts = <<>>]

\* the iterator takes the next solver off the stack
Pop ==
    /\ driver.pc = "next"
    /\ driver.queue # <<>>
    /\ Step([driver EXCEPT !.pc = "fill",
                           !.cur = <<driver.queue[Len(driver.queue)]>>,
                           !.queue = SubSeq(@, 1, Len(@) - 1)],
            NoProbe)

\* the stack is empty: the iterator ends and solve returns
Exhausted ==
    /\ driver.pc = "next"
    /\ driver.queue = <<>>
    /\ Step([driver EXCEPT !.pc = "done",
                           !.result = IF driver.found = <<>> THEN "NoSolution"
                                      ELSE "Ok"],
            NoProbe)

\* propagate; a filled board is validated and yielded, a second yield makes
\* solve return MultipleSolutions; an unfilled board goes on to the probes
Fill ==
    /\ driver.pc = "fill"
    /\ LET st == Propagate(puzzle, driver.cur[1])
       IN Step(IF ~st.ok THEN Dropped
               ELSE IF all_filled(st.sm)
               THEN (IF ~validate_result(st.sm) THEN Dropped
                     ELSE IF driver.found = <<>>
                     THEN [Dropped EXCEPT !.found = <<complete_puzzle(st.sm)>>]
                     ELSE [Dropped EXCEPT
                              !.found = Append(@, complete_puzzle(st.sm)),
                              !.pc = "done",
                              !.result = "MultipleSolutions"])
               ELSE [driver EXCEPT !.pc = "probe",
                                   !.cur = <<st.sm>>,
                                   !.pts = get_unknown_points(st.sm),
                                   !.rev = revision(st.sm)],
               NoProbe)

\* one case split on the next listed cell, if its side is still unknown
Probe ==
    /\ driver.pc = "probe"
    /\ driver.pts # <<>>
    /\ LET p     == Head(driver.pts)
           cur   == driver.cur[1]
           b_in  == Propagate(puzzle, Solver_set_inside(cur, p))
           b_out == Propagate(puzzle, Solver_set_outside(cur, p))
           rest  == [driver EXCEPT !.pts = Tail(@)]
       IN IF Solver_get_side(cur, p) # "Unknown" THEN Step(rest, NoProbe)
          ELSE Step(IF b_in.ok /\ b_out.ok
                    THEN [rest EXCEPT !.cur = <<mark_common(cur, b_in.sm, b_out.sm)>>]
                    ELSE IF b_in.ok THEN [rest EXCEPT !.cur = <<b_in.sm>>]
                    ELSE IF b_out.ok THEN [rest EXCEPT !.cur = <<b_out.sm>>]
                    ELSE Dropped,
                    [p |-> p, in_ok |-> b_in.ok, out_ok |-> b_out.ok,
                     parent |-> <<cur>>])

\* the probes made progress: propagate again
Refill ==
    /\ driver.pc = "probe"
    /\ driver.pts = <<>>
    /\ revision(driver.cur[1]) # driver.rev
    /\ Step([driver EXCEPT !.pc = "fill"], NoProbe)

\* the probes made no progress: both sides of the first unknown cell go on
\* the stack
Branch ==
    /\ driver.pc = "probe"
    /\ driver.pts = <<>>
    /\ revision(driver.cur[1]) = driver.rev
    /\ LET cur == driver.cur[1]
           p   == Head(get_unknown_points(cur))
       IN Step([Dropped EXCEPT
                   !.queue = @ \o <<Solver_set_outside(cur, p),
                                    Solver_set_inside(cur, p)>>],
               NoProbe)

NextSolver ==
    \/ Pop
    \/ Exhausted
    \/ Fill
    \/ Probe
    \/ Refill
    \/ Branch

SpecSolver == InitSolver /\ [][NextSolver]_vars

UCW0 == <<1, 0, 0, 1>>
UCW90 == <<0, -1, 1, 0>>
UCW180 == <<-1, 0, 0, -1>>
UCW270 == <<0, 1, -1, 0>>
H_FLIP == <<1, 0, 0, -1>>
V_FLIP == <<-1, 0, 0, 1>>

\* Rotation * Rotation with the last entry taken from the wrong column
Rotation_mul_slip(self, other) ==
    <<self[1] * other[1] + self[2] * other[3],
      self[1] * other[2] + self[2] * other[4],
      self[3] * other[1] + self[4] * other[3],
      self[3] * other[2] + self[4] * other[3]>>

\* Rotation * Rotation
Rotation_mul(self, other) ==
    <<self[1] * other[1] + self[2] * other[3],
      self[1] * other[2] + self[2] * other[4],
      self[3] * other[1] + self[4] * other[3],
      self[3] * other[2] + self[4] * other[4]>>

\* Rotation * Move
Rotation_mul_move(self, other) ==
    <<self[1] * other[1] + self[2] * other[2],
      self[3] * other[1] + self[4] * other[2]>>

(***************************************************************************)
(* SpecRotation: products of the axial rotations with each other and with  *)
(* Moves                                                                   *)
(***************************************************************************)
MaxMove == 2        \* a Move has both entries within -MaxMove .. MaxMove

Moves == (-MaxMove .. MaxMove) \X (-MaxMove .. MaxMove)

\* the array mat of tests::rotate_mat, indexed from 0
AxialRotation(i) == <<UCW0, UCW90, UCW180, UCW270>>[i + 1]

NoMachine ==
    /\ side_map = <<>>
    /\ ret = <<>>
    /\ known = <<>>
    /\ pool = <<>>
    /\ calls = <<>>
    /\ events = <<>>
    /\ puzzle = <<>>
    /\ driver = <<>>
    /\ probe = <<>>

InitRotation ==
    /\ NoMachine
    /\ args \in [op : {"input"}, i : 0 .. 3, j : 0 .. 3, v : Moves]

Computed(a) ==
    /\ args.op = "input"
    /\ args' = a
    /\ UNCHANGED <<side_map, ret, known, pool, calls, events, puzzle, driver, probe>>

\* mat[i] * mat[j]
MulRotation ==
    Computed([op |-> "mul_rotation", i |-> args.i, j |-> args.j,
              out |-> Rotation_mul(AxialRotation(args.i), AxialRotation(args.j))])

\* mat[i] * v
MulMove ==
    Computed([op |-> "mul_move", i |-> args.i, v |-> args.v,
              out |-> Rotation_mul_move(AxialRotation(args.i), args.v)])

NextRotation ==
    \/ MulRotation
    \/ MulMove

SpecRotation == InitRotation /\ [][NextRotation]_vars

RECURSIVE Ucw90Times(_, _)
Ucw90Times(n, v) ==
    IF n = 0 THEN v ELSE Rotation_mul_move(UCW90, Ucw90Times(n - 1, v))

\* C12: the product of the axial rotations R_i and R_j is R_((i+j) mod 4);
\* R_i applied to a Move is UCW90 applied i times to it; and UCW90 takes UP
\* to LEFT, LEFT to DOWN, DOWN to RIGHT and RIGHT to UP.
C12_RotationGroup ==
    /\ args.op = "mul_rotation" =>
          args.out = AxialRotation((args.i + args.j) % 4)
    /\ args.op = "mul_move" =>
          /\ args.out = Ucw90Times(args.i, args.v)
          /\ (args.i = 1 /\ args.v = UP) => args.out = LEFT
          /\ (args.i = 1 /\ args.v = LEFT) => args.out = DOWN
          /\ (args.i = 1 /\ args.v = DOWN) => args.out = RIGHT
          /\ (args.i = 1 /\ args.v = RIGHT) => args.out = UP

C12_Witness ==
    /\ args.op = "mul_rotation"
    /\ args.i = 3
    /\ args.j = 2
    /\ args.out = UCW90

(***************************************************************************)
(* Pattern and Theorem (theorem.rs).  A pattern is <<"Hint", h, p>> or     *)
(* <<"Edge", e, p0, p1>>; a theorem is [size, matcher, result].            *)
(***************************************************************************)
\* derived Ord of Point: by row, then by column
Point_lt(a, b) == a[1] < b[1] \/ (a[1] = b[1] /\ a[2] < b[2])

\* Point - Point and Point + Move
sub(p, q) == <<p[1] - q[1], p[2] - q[2]>>

\* the fields of a pattern in the order the derived Ord compares them
Pattern_key(x) ==
    IF x[1] = "Hint" THEN <<0, x[2], x[3][1], x[3][2]>>
    ELSE <<1, IF x[2] = "Line" THEN 0 ELSE 1,
           x[3][1], x[3][2], x[4][1], x[4][2]>>

RECURSIVE Lex_lt(_, _)
Lex_lt(a, b) ==
    IF b = <<>> THEN FALSE
    ELSE IF a = <<>> THEN TRUE
    ELSE IF Head(a) # Head(b) THEN Head(a) < Head(b)
    ELSE Lex_lt(Tail(a), Tail(b))

Pattern_lt(x, y) ==
    IF x[1] # y[1] THEN x[1] = "Hint" ELSE Lex_lt(Pattern_key(x), Pattern_key(y))

\* normalized that never swaps the points
Pattern_normalized_id(x) == x

Pattern_normalized(x) ==
    IF x[1] = "Edge" /\ Point_lt(x[4], x[3]) THEN <<"Edge", x[2], x[4], x[3]>>
    ELSE x

Pattern_rotate(x, rot) ==
    LET o == <<0, 0>>
    IN Pattern_normalized(
          IF x[1] = "Hint"
          THEN <<"Hint", x[2], add(o, Rotation_mul_move(rot, sub(x[3], o)))>>
          ELSE <<"Edge", x[2], add(o, Rotation_mul_move(rot, sub(x[3], o))),
                               add(o, Rotation_mul_move(rot, sub(x[4], o)))>>)

Pattern_shift(x, d) ==
    Pattern_normalized(
        IF x[1] = "Hint" THEN <<"Hint", x[2], add(x[3], d)>>
        ELSE <<"Edge", x[2], add(x[3], d), add(x[4], d)>>)

\* Vec<Pattern>::sort
RECURSIVE InsertPattern(_, _)
InsertPattern(seq, x) ==
    IF seq = <<>> THEN <<x>>
    ELSE IF Pattern_lt(x, Head(seq)) THEN <<x>> \o seq
    ELSE <<Head(seq)>> \o InsertPattern(Tail(seq), x)

RECURSIVE SortPatterns(_)
SortPatterns(seq) ==
    IF seq = <<>> THEN <<>>
    ELSE InsertPattern(SortPatterns(Tail(seq)), Head(seq))

\* Vec::dedup: consecutive equal elements collapse
RECURSIVE dedup(_)
dedup(seq) ==
    IF Len(seq) <= 1 THEN seq
    ELSE IF seq[1] = seq[2] THEN dedup(Tail(seq))
    ELSE <<seq[1]>> \o dedup(Tail(seq))

Theorem_normalized(th) ==
    [size    |-> th.size,
     matcher |-> dedup(SortPatterns(th.matcher)),
     result  |-> dedup(SortPatterns(th.result))]

Abs(n) == IF n < 0 THEN -n ELSE n

\* rotate that re-anchors the rows only
Theorem_rotate_rows_only(th, rot) ==
    LET size == Rotation_mul_move(rot, th.size)
        d    == IF size[1] < 0 THEN <<-size[1] - 1, 0>> ELSE <<0, 0>>
    IN Theorem_normalized(
          [size    |-> <<Abs(size[1]), Abs(size[2])>>,
           matcher |-> [k \in DOMAIN th.matcher |->
                           Pattern_shift(Pattern_rotate(th.matcher[k], rot), d)],
           result  |-> [k \in DOMAIN th.result |->
                           Pattern_shift(Pattern_rotate(th.result[k], rot), d)]])

Theorem_rotate(th, rot) ==
    LET size == Rotation_mul_move(rot, th.size)
        d0   == IF size[1] < 0 THEN <<-size[1] - 1, 0>> ELSE <<0, 0>>
        d    == IF size[2] < 0 THEN add(d0, <<0, -size[2] - 1>>) ELSE d0
    IN Theorem_normalized(
          [size    |-> <<Abs(size[1]), Abs(size[2])>>,
           matcher |-> [k \in DOMAIN th.matcher |->
                           Pattern_shift(Pattern_rotate(th.matcher[k], rot), d)],
           result  |-> [k \in DOMAIN th.result |->
                           Pattern_shift(Pattern_rotate(th.result[k], rot), d)]])

\* derived Ord of Vec<Pattern>: lexicographic, a proper prefix first
RECURSIVE Patterns_lt(_, _)
Patterns_lt(a, b) ==
    IF b = <<>> THEN FALSE
    ELSE IF a = <<>> THEN TRUE
    ELSE IF Head(a) # Head(b) THEN Pattern_lt(Head(a), Head(b))
    ELSE Patterns_lt(Tail(a), Tail(b))

\* derived Ord of Theorem: size, then matcher, then result
Theorem_lt(a, b) ==
    IF a.size # b.size THEN Point_lt(a.size, b.size)
    ELSE IF a.matcher # b.matcher THEN Patterns_lt(a.matcher, b.matcher)
    ELSE Patterns_lt(a.result, b.result)

\* Vec<Theorem>::sort
RECURSIVE InsertTheorem(_, _)
InsertTheorem(seq, x) ==
    IF seq = <<>> THEN <<x>>
    ELSE IF Theorem_lt(x, Head(seq)) THEN <<x>> \o seq
    ELSE <<Head(seq)>> \o InsertTheorem(Tail(seq), x)

RECURSIVE SortTheorems(_)
SortTheorems(seq) ==
    IF seq = <<>> THEN <<>>
    ELSE InsertTheorem(SortTheorems(Tail(seq)), Head(seq))

\* all_rotations without the dedup
all_rotations_no_dedup(th) ==
    LET h_deg0 == Theorem_rotate(th, H_FLIP)
    IN SortTheorems(<<th,
                      Theorem_rotate(th, UCW90),
                      Theorem_rotate(th, UCW180),
                      Theorem_rotate(th, UCW270),
                      h_deg0,
                      Theorem_rotate(h_deg0, UCW90),
                      Theorem_rotate(h_deg0, UCW180),
                      Theorem_rotate(h_deg0, UCW270)>>)

all_rotations(th) ==
    LET h_deg0 == Theorem_rotate(th, H_FLIP)
    IN dedup(SortTheorems(<<th,
                            Theorem_rotate(th, UCW90),
                            Theorem_rotate(th, UCW180),
                            Theorem_rotate(th, UCW270),
                            h_deg0,
                            Theorem_rotate(h_deg0, UCW90),
                            Theorem_rotate(h_deg0, UCW180),
                            Theorem_rotate(h_deg0, UCW270)>>))

(***************************************************************************)
(* SpecTheorem: the pattern and theorem operations on small inputs         *)
(***************************************************************************)
MaxPatterns == 2    \* patterns in the matcher of a theorem under test

TheoremSizes == {<<1, 1>>, <<1, 2>>}
TheoremHints == {0, 3}

\* the cells of a theorem and the cells around them
NearPoints(size) == (-1 .. size[1]) \X (-1 .. size[2])

\* the edges between neighbouring cells, one of them inside the theorem
EdgePatterns(size) ==
    {<<"Edge", e, p, add(p, m)>> :
        e \in {"Line", "Cross"},
        p \in {q \in NearPoints(size) : TRUE},
        m \in {RIGHT, DOWN}}
    \cap {x \in {"Edge"} \X {"Line", "Cross"} \X NearPoints(size) \X NearPoints(size) :
            contains(size, x[3]) \/ contains(size, x[4])}

HintPatterns(size) ==
    {<<"Hint", h, p>> : h \in TheoremHints,
                         p \in {q \in NearPoints(size) : contains(size, q)}}

\* the sorted sequence of a set of patterns
RECURSIVE PatternSeq(_)
PatternSeq(S) ==
    IF S = {} THEN <<>>
    ELSE LET x == CHOOSE x \in S : \A y \in S : x = y \/ Pattern_lt(x, y)
         IN <<x>> \o PatternSeq(S \ {x})

\* the normalized theorems: sorted matcher of 1 .. MaxPatterns patterns, one
\* result edge
TheoremsOf(size) ==
    LET pats == HintPatterns(size) \cup EdgePatterns(size)
    IN {[size |-> size, matcher |-> PatternSeq(M), result |-> <<r>>] :
           M \in SubsetsUpTo(pats, MaxPatterns) \ {{}},
           r \in EdgePatterns(size)}

\* the theorems of tests::all_rotations: a hinted cell and its four edges
SymmetricTheorems ==
    {[size    |-> <<1, 1>>,
      matcher |-> <<<<"Hint", h, <<0, 0>>>>>>,
      result  |-> PatternSeq({Pattern_normalized(
                                 <<"Edge", e, <<0, 0>>, add(<<0, 0>>, m)>>) :
                              m \in {UP, RIGHT, DOWN, LEFT}})] :
        h \in TheoremHints, e \in {"Line", "Cross"}}

Theorems ==
    SymmetricTheorems \cup UNION {TheoremsOf(size) : size \in TheoremSizes}

\* every pattern on the points around a 1x1 theorem, normalized or not
AnyPatterns ==
    LET pts == NearPoints(<<1, 1>>)
    IN {<<"Hint", h, p>> : h \in TheoremHints, p \in pts}
       \cup {<<"Edge", e, p, q>> : e \in {"Line", "Cross"}, p \in pts, q \in pts}

\* the dihedral group as all_rotations composes it
Dihedral ==
    {UCW0, UCW90, UCW180, UCW270, H_FLIP,
     Rotation_mul(UCW90, H_FLIP), Rotation_mul(UCW180, H_FLIP),
     Rotation_mul(UCW270, H_FLIP)}

Inverse(rot) == CHOOSE q \in Dihedral : Rotation_mul(q, rot) = UCW0

InitTheorem ==
    /\ NoMachine
    /\ args \in [op : {"input"}, th : Theorems]
                \cup [op : {"input"}, pat : AnyPatterns]

\* th.rotate(rot).rotate(rot^-1)
RotateBack ==
    \E rot \in Dihedral :
        /\ "th" \in DOMAIN args
        /\ Computed([op |-> "rotate_back", th |-> args.th, rot |-> rot,
                     mid |-> Theorem_rotate(args.th, rot),
                     out |-> Theorem_rotate(Theorem_rotate(args.th, rot),
                                            Inverse(rot))])

AllRotations ==
    /\ "th" \in DOMAIN args
    /\ Computed([op |-> "all_rotations", th |-> args.th,
                 out |-> all_rotations(args.th)])

Normalized ==
    /\ "pat" \in DOMAIN args
    /\ Computed([op |-> "normalized", pat |-> args.pat,
                 out |-> Pattern_normalized(args.pat),
                 again |-> Pattern_normalized(Pattern_normalized(args.pat))])

PatternRotate ==
    \E rot \in Dihedral :
        /\ "pat" \in DOMAIN args
        /\ Computed([op |-> "rotate", pat |-> args.pat, rot |-> rot,
                     out |-> Pattern_rotate(args.pat, rot)])

PatternShift ==
    \E d \in Moves :
        /\ "pat" \in DOMAIN args
        /\ Computed([op |-> "shift", pat |-> args.pat, d |-> d,
                     out |-> Pattern_shift(args.pat, d)])

NextTheorem ==
    \/ RotateBack
    \/ AllRotations
    \/ Normalized
    \/ PatternRotate
    \/ PatternShift

SpecTheorem == InitTheorem /\ [][NextTheorem]_vars

\* C13: a normalized theorem rotated by an element of the dihedral group and
\* then by its inverse is the theorem again: same size, same matcher list,
\* same result list.
C13_RotateInverse ==
    args.op = "rotate_back" =>
        /\ args.out.size = args.th.size
        /\ args.out.matcher = args.th.matcher
        /\ args.out.result = args.th.result

C13_Witness ==
    /\ args.op = "rotate_back"
    /\ args.rot = UCW90
    /\ args.th.size = <<1, 2>>
    /\ args.mid.size = <<2, 1>>
    /\ Len(args.th.matcher) = 2
    /\ args.mid.matcher # args.th.matcher
    /\ args.out = args.th

\* C14: normalizing a pattern twice gives what normalizing it once gives; a
\* Hint pattern is its own normal form; a normalized Edge(e, a, b) has a <= b
\* by (row, column); and rotate and shift return normalized patterns.
C14_PatternNormalized ==
    /\ args.op = "normalized" =>
          /\ args.again = args.out
          /\ args.pat[1] = "Hint" => args.out = args.pat
          /\ args.out[1] = "Edge" => ~Point_lt(args.out[4], args.out[3])
    /\ args.op \in {"rotate", "shift"} =>
          /\ Pattern_normalized(args.out) = args.out
          /\ args.out[1] = "Edge" => ~Point_lt(args.out[4], args.out[3])

C14_Witness ==
    /\ args.op = "normalized"
    /\ args.pat = <<"Edge", "Line", <<1, 0>>, <<0, 0>>>>
    /\ args.out = <<"Edge", "Line", <<0, 0>>, <<1, 0>>>>

\* C15: all_rotations returns the images of the theorem under the identity,
\* the three rotations and the horizontal flip followed by each of those,
\* in strictly ascending order (so without duplicates): between 1 and 8
\* entries, the theorem itself among them, and the theorem alone when every
\* element of the group leaves it unchanged.
C15_AllRotations ==
    args.op = "all_rotations" =>
        /\ {args.out[k] : k \in DOMAIN args.out} =
              {Theorem_rotate(args.th, rot) : rot \in Dihedral}
        /\ \A k \in 1 .. (Len(args.out) - 1) :
              Theorem_lt(args.out[k], args.out[k + 1])
        /\ Len(args.out) \in 1 .. 8
        /\ \E k \in DOMAIN args.out : args.out[k] = args.th
        /\ (\A rot \in Dihedral : Theorem_rotate(args.th, rot) = args.th) =>
              args.out = <<args.th>>

C15_Witness ==
    /\ args.op = "all_rotations"
    /\ Len(args.th.result) = 4
    /\ \A rot \in Dihedral : Theorem_rotate(args.th, rot) = args.th
    /\ args.out = <<args.th>>

(***************************************************************************)
(* Table (geom.rs): [size, data], data[1] the outside slot (slot 0 of the  *)
(* Vec)                                                                    *)
(***************************************************************************)
Table_new(size, outside, data) == [size |-> size, data |-> <<outside>> \o data]

\* Index<Point>: the slot addressed and the value in it
Table_index(tbl, p) ==
    LET idx == point_to_cellid(tbl.size, p)
    IN [idx |-> idx, value |-> tbl.data[idx + 1]]

(***************************************************************************)
(* SpecGeom: the cell numbering on small grids                             *)
(***************************************************************************)
MaxSide == 3        \* a grid under test has at most this many rows, columns

GeomSizes == (1 .. MaxSide) \X (1 .. MaxSide)
GeomPoints == ((-2) .. (MaxSide + 1)) \X ((-2) .. (MaxSide + 1))

InitGeom ==
    /\ NoMachine
    /\ args \in [op : {"input"}, size : GeomSizes, p : GeomPoints]
                \cup UNION {[op : {"input"}, size : {size}, id : CellIds(size)] :
                             size \in GeomSizes}

\* point_to_cellid(p), and the point of that id
PointToCellid ==
    /\ "p" \in DOMAIN args
    /\ Computed([op |-> "point_to_cellid", size |-> args.size, p |-> args.p,
                 out |-> point_to_cellid(args.size, args.p),
                 back |-> cellid_to_point(args.size,
                                          point_to_cellid(args.size, args.p))])

\* cellid_to_point(id), and the id of that point
CellidToPoint ==
    /\ "id" \in DOMAIN args
    /\ Computed([op |-> "cellid_to_point", size |-> args.size, id |-> args.id,
                 out |-> cellid_to_point(args.size, args.id),
                 back |-> point_to_cellid(args.size,
                                          cellid_to_point(args.size, args.id))])

\* table[p] on the table whose outside slot holds "outside" and whose cell k
\* (row-major from 1) holds k
TableIndex ==
    /\ "p" \in DOMAIN args
    /\ LET n   == args.size[1] * args.size[2]
           tbl == Table_new(args.size, "outside", [k \in 1 .. n |-> k])
       IN Computed([op |-> "index", size |-> args.size, p |-> args.p,
                    out |-> Table_index(tbl, args.p)])

NextGeom ==
    \/ PointToCellid
    \/ CellidToPoint
    \/ TableIndex

SpecGeom == InitGeom /\ [][NextGeom]_vars

\* C16: on an R x C grid point_to_cellid takes the in-grid point (r, c) to
\* r*C + c + 1, no other in-grid point to the same id, and every other point
\* to 0; cellid_to_point undoes it on in-grid points and point_to_cellid
\* undoes cellid_to_point on every id of 0 .. R*C; indexing a Table by a
\* point outside the grid addresses slot 0, the outside value.
C16_CellNumbering ==
    /\ args.op = "point_to_cellid" =>
          IF contains(args.size, args.p)
          THEN /\ args.out = args.p[1] * args.size[2] + args.p[2] + 1
               /\ args.out \in 1 .. (args.size[1] * args.size[2])
               /\ \A q \in GridPoints(args.size) :
                     point_to_cellid(args.size, q) = args.out => q = args.p
               /\ args.back = args.p
          ELSE args.out = 0
    /\ args.op = "cellid_to_point" => args.back = args.id
    /\ args.op = "index" =>
          IF contains(args.size, args.p)
          THEN args.out.value = args.p[1] * args.size[2] + args.p[2] + 1
          ELSE args.out = [idx |-> 0, value |-> "outside"]

C16_Witness ==
    /\ args.op = "point_to_cellid"
    /\ args.size = <<2, 3>>
    /\ args.p = <<1, 2>>
    /\ args.out = 6
    /\ args.back = <<1, 2>>

(***************************************************************************)
(* Board::from_reader (board.rs).  A text is a sequence of characters; a   *)
(* hint is <<d>> for Some(d) and <<>> for None.                            *)
(***************************************************************************)
\* BufferedReader::lines: each line up to and including its newline, and a
\* last line without one if characters remain
RECURSIVE read_lines(_, _)
read_lines(text, cur) ==
    IF text = <<>> THEN (IF cur = <<>> THEN <<>> ELSE <<cur>>)
    ELSE IF Head(text) = "\n"
    THEN <<Append(cur, "\n")>> \o read_lines(Tail(text), <<>>)
    ELSE read_lines(Tail(text), Append(cur, Head(text)))

\* str::trim_matches('\n'): newlines are stripped from both ends
RECURSIVE trim_matches(_)
trim_matches(line) ==
    IF line = <<>> THEN line
    ELSE IF Head(line) = "\n" THEN trim_matches(Tail(line))
    ELSE IF line[Len(line)] = "\n"
    THEN trim_matches(SubSeq(line, 1, Len(line) - 1))
    ELSE line

\* the match on one character
char_to_hint(c) ==
    IF c = "0" THEN <<0>>
    ELSE IF c = "1" THEN <<1>>
    ELSE IF c = "2" THEN <<2>>
    ELSE IF c = "3" THEN <<3>>
    ELSE <<>>

Max2(a, b) == IF a < b THEN b ELSE a

RECURSIVE max_len(_)
max_len(mat) ==
    IF mat = <<>> THEN 0 ELSE Max2(Len(Head(mat)), max_len(Tail(mat)))

\* row.extend(repeat(None).take(column - len))
extend(row, column) ==
    row \o [k \in 1 .. (column - Len(row)) |-> <<>>]

RECURSIVE concat(_)
concat(mat) == IF mat = <<>> THEN <<>> ELSE Head(mat) \o concat(Tail(mat))

\* from_reader that does not pad the short rows
from_reader_no_pad(text) ==
    LET ls     == read_lines(text, <<>>)
        mat    == [r \in DOMAIN ls |->
                     [k \in DOMAIN trim_matches(ls[r]) |->
                         char_to_hint(trim_matches(ls[r])[k])]]
        column == max_len(mat)
        row    == Len(mat)
    IN IF row > 0 /\ column > 0
       THEN [ok |-> TRUE, size |-> <<row, column>>, hint |-> concat(mat)]
       ELSE [ok |-> FALSE]

\* ok is FALSE when the size assertion of Board::with_data fails
from_reader(text) ==
    LET ls     == read_lines(text, <<>>)
        mat    == [r \in DOMAIN ls |->
                     [k \in DOMAIN trim_matches(ls[r]) |->
                         char_to_hint(trim_matches(ls[r])[k])]]
        column == max_len(mat)
        padded == [r \in DOMAIN mat |-> extend(mat[r], column)]
        row    == Len(mat)
    IN IF row > 0 /\ column > 0
       THEN [ok |-> TRUE, size |-> <<row, column>>, hint |-> concat(padded)]
       ELSE [ok |-> FALSE]

(***************************************************************************)
(* SpecBoard: from_reader on short texts                                   *)
(***************************************************************************)
MaxText == 4        \* characters in the text under test

Chars == {"0", "1", "2", "3", "4", "9", " ", "\n"}

Texts == UNION {[1 .. n -> Chars] : n \in 0 .. MaxText}

InitBoard ==
    /\ NoMachine
    /\ args \in [op : {"input"}, text : Texts]

FromReader ==
    Computed([op |-> "from_reader", text |-> args.text,
              out |-> from_reader(args.text)])

NextBoard == FromReader

SpecBoard == InitBoard /\ [][NextBoard]_vars

\* the text seen as lines: a line ends at each newline, and a last line holds
\* what follows the last newline, if anything
Newlines(text) == {k \in DOMAIN text : text[k] = "\n"}

LineCount(text) ==
    Cardinality(Newlines(text))
        + (IF text # <<>> /\ text[Len(text)] # "\n" THEN 1 ELSE 0)

\* the position before the first character of line r (r from 0)
LineStart(text, r) ==
    IF r = 0 THEN 0
    ELSE CHOOSE k \in Newlines(text) :
            Cardinality({j \in Newlines(text) : j <= k}) = r

LineEnd(text, r) ==
    IF r < Cardinality(Newlines(text)) THEN LineStart(text, r + 1)
    ELSE Len(text) + 1

LineLen(text, r) == LineEnd(text, r) - LineStart(text, r) - 1

Longest(text) ==
    IF LineCount(text) = 0 THEN 0
    ELSE CHOOSE n \in 0 .. Len(text) :
            /\ \E r \in 0 .. (LineCount(text) - 1) : LineLen(text, r) = n
            /\ \A r \in 0 .. (LineCount(text) - 1) : LineLen(text, r) <= n

\* the hint the text puts on cell (r, c)
HintAt(text, r, c) ==
    IF c >= LineLen(text, r) THEN <<>>
    ELSE LET ch == text[LineStart(text, r) + c + 1]
         IN IF ch \in {"0", "1", "2", "3"}
            THEN <<CHOOSE d \in 0 .. 3 : ToString(d) = ch>>
            ELSE <<>>

\* C17 (as stated): parsing any text yields a board with as many rows as
\* the text has lines and as many columns as its longest line.
C17_ParseAlways ==
    args.op = "from_reader" =>
        /\ args.out.ok
        /\ args.out.size = <<LineCount(args.text), Longest(args.text)>>

\* C17 (amended): parsing yields a board exactly when the text has a line
\* that is not empty; the board has as many rows as the text has lines and
\* as many columns as the longest line, cell (r, c) bears hint d iff
\* character c of line r is the digit d of 0 .. 3, and no hint otherwise.
C17_Parse ==
    args.op = "from_reader" =>
        /\ args.out.ok <=> Longest(args.text) > 0
        /\ args.out.ok =>
              /\ args.out.size = <<LineCount(args.text), Longest(args.text)>>
              /\ Len(args.out.hint) = LineCount(args.text) * Longest(args.text)
              /\ \A r \in 0 .. (LineCount(args.text) - 1) :
                    \A c \in 0 .. (Longest(args.text) - 1) :
                       args.out.hint[r * Longest(args.text) + c + 1] =
                           HintAt(args.text, r, c)

C17_Witness ==
    /\ args.op = "from_reader"
    /\ args.text = <<"1", "\n", "4", "3">>
    /\ args.out.ok
    /\ args.out.size = <<2, 2>>
    /\ args.out.hint = << <<1>>, <<>>, <<>>, <<3>> >>

(***************************************************************************)
(* SpecSolutions: the Solutions iterator run to its end (derive_all), the  *)
(* driver of SpecSolver without the stop at the second solution            *)
(***************************************************************************)
\* propagate; a filled board that validates is yielded and the iterator goes
\* on; an unfilled board goes on to the probes
FillAll ==
    /\ driver.pc = "fill"
    /\ LET st == Propagate(puzzle, driver.cur[1])
       IN Step(IF ~st.ok THEN Dropped
               ELSE IF all_filled(st.sm)
               THEN (IF ~validate_result(st.sm) THEN Dropped
                     ELSE [Dropped EXCEPT
                              !.found = Append(@, complete_puzzle(st.sm))])
               ELSE [driver EXCEPT !.pc = "probe",
                                   !.cur = <<st.sm>>,
                                   !.pts = get_unknown_points(st.sm),
                                   !.rev = revision(st.sm)],
               NoProbe)

\* the stack is empty: next() returns None
ExhaustedAll ==
    /\ driver.pc = "next"
    /\ driver.queue = <<>>
    /\ Step([driver EXCEPT !.pc = "done"], NoProbe)

NextSolutions ==
    \/ Pop
    \/ ExhaustedAll
    \/ FillAll
    \/ Probe
    \/ Refill
    \/ Branch

\* the loop runs without interruption until the iterator ends
SpecSolutions == InitSolver /\ [][NextSolutions]_vars /\ WF_vars(NextSolutions)

\* the cells of unknown side of every solver on the stack and in hand
UnknownCells(sm) ==
    {id \in 1 .. (cell_len(sm.size) - 1) : Solver_get_side(sm, id) = "Unknown"}

\* the sets of the union-find of a solver; every effective set_* call
\* merges two of them
Classes(sm) == Cardinality({sm.uf[k] : k \in DOMAIN sm.uf})

\* a bound on the steps that a solver with c sets costs from its Pop on: the
\* Pop, then a Fill, a probe for each cell, a Refill or Branch, and what
\* solvers with fewer sets cost
RECURSIVE StepsFor(_, _)
StepsFor(size, c) ==
    IF c <= 0 THEN 1 ELSE cell_len(size) + 3 + 2 * StepsFor(size, c - 1)

RECURSIVE StepsForAll(_, _)
StepsForAll(size, queue) ==
    IF queue = <<>> THEN 0
    ELSE StepsFor(size, Classes(Head(queue))) + StepsForAll(size, Tail(queue))

\* a bound on the steps left to the iterator
Rank(pz, d) ==
    LET q == StepsForAll(pz.size, d.queue)
    IN IF d.pc = "done" THEN 0
       ELSE IF d.pc = "next" THEN 1 + q
       ELSE IF d.pc = "fill"
       THEN q + StepsFor(pz.size, Classes(d.cur[1]))
       ELSE q + Len(d.pts) + 2
              + (IF revision(d.cur[1]) # d.rev
                 THEN StepsFor(pz.size, Classes(d.cur[1])) - 1
                 ELSE 2 * StepsFor(pz.size, Classes(d.cur[1]) - 1))

C19_InvalidatedNeverFires ==
    \A k \in DOMAIN events.log :
        LET e == events.log[k]
        IN (/\ e.ev = "update"
            /\ \/ e.i \in events.dead
               \/ \E j \in 1 .. (k - 1) :
                     events.log[j].ev = "invalidate" /\ events.log[j].i = e.i)
           => /\ e.count = 0
              /\ e.after = 0
              /\ e.sm_after = e.sm_before

\* theorem i was invalidated in an earlier pass, an edge of its matcher is
\* confirmed in this one, and its result does not hold on the SideMap
C19_Witness ==
    \E k \in DOMAIN events.log :
        /\ events.log[k].ev = "update"
        /\ events.log[k].i \in events.dead
        /\ Len(pool.results[events.log[k].i]) = 1
        /\ get_edge(side_map, pool.results[events.log[k].i][1].points[1],
                    pool.results[events.log[k].i][1].points[2])
              \notin {pool.results[events.log[k].i][1].edge, "Conflict"}

\* C20: update(i) changes nothing when counts[i] = 0; when counts[i] = 1 it
\* sets counts[i] to 0 and applies the edges of results[i] to the SideMap
\* with set_edge, in order; when counts[i] > 1 it lowers counts[i] by 1 and
\* leaves the SideMap as it is; it never touches the rest of the pool; and no
\* theorem has its results applied more than once.
C20_UpdateCases ==
    /\ \A k \in DOMAIN events.log :
          LET e == events.log[k]
          IN e.ev = "update" =>
                /\ e.rest_same
                /\ e.count = 0 => e.after = 0 /\ e.sm_after = e.sm_before
                /\ e.count = 1 =>
                      /\ e.after = 0
                      /\ e.sm_after =
                            ApplyResult(e.sm_before, pool.results[e.i], 1)
                      /\ \A n \in DOMAIN pool.results[e.i] :
                            get_edge(e.sm_after,
                                     pool.results[e.i][n].points[1],
                                     pool.results[e.i][n].points[2])
                                \in {pool.results[e.i][n].edge, "Conflict"}
                /\ e.count > 1 =>
                      e.after = e.count - 1 /\ e.sm_after = e.sm_before
    /\ \A i \in DOMAIN events.fired : events.fired[i] <= 1

\* both patterns of a matcher are confirmed in one pass
C20_Witness ==
    \E k \in DOMAIN events.log :
        /\ k > 1
        /\ events.log[k].ev = "update"
        /\ events.log[k].count = 1
        /\ events.log[k].sm_after # events.log[k].sm_before
        /\ events.log[k - 1].ev = "update"
        /\ events.log[k - 1].i = events.log[k].i
        /\ events.log[k - 1].count = 2
        /\ events.fired[events.log[k].i] = 1

(***************************************************************************)
(* SpecPoolEdges: a pool over the board of one row and three cells, whose  *)
(* matchers name the border edge of the first cell and the edge between    *)
(* the other two, so that two indexed edges can lie in different           *)
(* components of the SideMap; apply_all passes, case-split set calls and   *)
(* the set_edge calls of mark_common in any order                          *)
(***************************************************************************)
EdgesSize == <<1, 3>>
FirstCell == point_to_cellid(EdgesSize, <<0, 0>>)
MidCell == point_to_cellid(EdgesSize, <<0, 1>>)
LastCell == point_to_cellid(EdgesSize, <<0, 2>>)

EdgesMatcherPairs == {<<OUTSIDE_CELL_ID, FirstCell>>, <<MidCell, LastCell>>}
\* the result edges: either kind on those pairs, Cross between the first two
\* cells
EdgesResults ==
    PatternsOn(EdgesMatcherPairs)
        \cup {[edge |-> "Cross", points |-> <<FirstCell, MidCell>>]}

MatcherSetsOn(pairs) ==
    {m \in SUBSET PatternsOn(pairs) :
        /\ m # {}
        /\ Cardinality(m) <= MaxMatcher
        /\ \A x, y \in m : x.points = y.points => x = y}

TheoremMatchersOn(mp, results) ==
    UNION {{[matcher |-> m, result |-> <<x>>] :
               x \in {y \in results : \A z \in m : z.points # y.points}} :
           m \in MatcherSetsOn(mp)}

MatcherListsOn(mp, results) ==
    {SetToSeq(T) : T \in {U \in SubsetsUpTo(TheoremMatchersOn(mp, results), MaxTheorems) :
        /\ U # {}
        /\ \A a, b \in U : a.matcher = b.matcher => a = b}}

InitPoolEdges ==
    /\ side_map = SideMap_new(EdgesSize)
    /\ \E matchers \in MatcherListsOn(EdgesMatcherPairs, EdgesResults) :
         \E order \in Orders(IndexedPairs(matchers)) :
             /\ pool = TheoremPool_new(matchers, order)
             /\ events = NewEvents(matchers, pool)
    /\ calls = <<NoCall, NoCall>>
    /\ ret = <<>>
    /\ known = <<>>
    /\ puzzle = <<>>
    /\ driver = <<>>
    /\ probe = <<>>
    /\ args = <<>>

\* the cells the search splits on and the left cells of the edges mark_common
\* sets: those the matchers name
SplitPoints == {cellid_to_point(EdgesSize, FirstCell)}
CommonCells == {MidCell}

\* the case split of the search on a cell whose side is Unknown
EdgesSetSide ==
    \E p \in SplitPoints, ty \in {"In", "Out"} :
        LET r == set_side(side_map, p, ty)
        IN /\ get_side(side_map, p) = "Unknown"
           /\ side_map' = r.sm
           /\ Record("set_side", TRUE, r.sm)
           /\ UNCHANGED <<pool, events, ret, known, solverVars, args>>

\* a set_edge call of mark_common: an edge both branches of a case split
\* agree on, which the SideMap they started from does not know yet
EdgesSetEdge ==
    \E id \in CommonCells, e \in Edges :
        LET r == set_edge(side_map, id, id + 1, e)
        IN /\ get_edge(side_map, id, id + 1) = "Unknown"
           /\ side_map' = r.sm
           /\ Record("set_edge", TRUE, r.sm)
           /\ UNCHANGED <<pool, events, ret, known, solverVars, args>>

NextPoolEdges ==
    \/ ApplyAll
    \/ EdgesSetSide
    \/ EdgesSetEdge

SpecPoolEdges == InitPoolEdges /\ [][NextPoolEdges]_vars

\* the matcher edges of theorem i hold in sm: each has its expected kind
MatcherConfirmed(sm, i) ==
    \A pat \in matcher_edges(events.matchers[i]) :
        get_edge(sm, pat.points[1], pat.points[2]) = pat.edge

\* the update calls of the last pass that applied results
Firings == {k \in DOMAIN events.log :
               events.log[k].ev = "update" /\ events.log[k].count = 1}

\* how often the matcher edge pat of theorem i has been confirmed up to the
\* call k of the last pass, counted up to 2
ConfirmedTimes(i, pat, k) ==
    Min2(2, events.conf[<<i, pat>>] + Confirms(events.log, events.exam, i, pat, k))

C21_FiresOnlyConfirmedRetried ==
    \A k \in Firings :
        \A pat \in matcher_edges(events.matchers[events.log[k].i]) :
            ConfirmedTimes(events.log[k].i, pat, k) = 1

CallsOf(log, first, last) ==
    [j \in 1 .. last - first + 1 |-> <<log[first + j - 1].ev, log[first + j - 1].i>>]

\* the call ev for each theorem of list, in order
Each(ev, list) == [j \in DOMAIN list |-> <<ev, list[j]>>]

\* the entries of old that exam read while their edge was Unknown, in order
RECURSIVE KeptEntries(_, _, _)
KeptEntries(old, exam, k) ==
    IF k > Len(exam) THEN <<>>
    ELSE (IF exam[k].edge = "Unknown" THEN <<old[k]>> ELSE <<>>)
             \o KeptEntries(old, exam, k + 1)

RECURSIVE SumOver(_, _)
SumOver(f, S) ==
    IF S = {} THEN 0
    ELSE LET x == CHOOSE y \in S : TRUE IN f[x] + SumOver(f, S \ {x})

\* no call of the last pass and no pass raised a count
CountsNeverIncrease ==
    /\ \A k \in DOMAIN events.log : events.log[k].after <= events.log[k].count
    /\ \A i \in DOMAIN pool.counts : pool.counts[i] <= events.before.counts[i]

root_articulation_one_child(ord_v, num_child) == ord_v = 1 /\ num_child > 0

\* line 75: the root is an articulation point iff it has several DFS children
root_articulation(ord_v, num_child) == ord_v = 1 /\ num_child > 1

\* dfs of get_articulation.  st is [visited, ord, low, ord_cnt, arts] and
\* parent, the vertex whose loop called dfs for each vertex (0 for none)
RECURSIVE articulation_dfs(_, _, _)
RECURSIVE articulation_loop(_, _, _, _, _, _)
articulation_dfs(graph, v, st) ==
    LET st1 == [st EXCEPT !.ord_cnt = @ + 1,
                          !.visited[v] = TRUE,
                          !.ord[v] = st.ord_cnt + 1,
                          !.low[v] = st.ord_cnt + 1]
        r   == articulation_loop(graph, v, 1, st1, FALSE, 0)
    IN IF r.is_articulation \/ root_articulation(r.st.ord[v], r.num_child)
       THEN [r.st EXCEPT !.arts = Append(@, v)]
       ELSE r.st

\* the loop over graph[v] from position k
articulation_loop(graph, v, k, st, is_articulation, num_child) ==
    IF k > Len(graph[v])
    THEN [st |-> st, is_articulation |-> is_articulation, num_child |-> num_child]
    ELSE LET u == graph[v][k]
         IN IF u = v
            THEN articulation_loop(graph, v, k + 1, st, is_articulation, num_child)
            ELSE IF ~st.visited[u]
            THEN LET s2 == articulation_dfs(graph, u, [st EXCEPT !.parent[u] = v])
                     s3 == [s2 EXCEPT !.low[v] = Min2(s2.low[v], s2.low[u])]
                 IN articulation_loop(graph, v, k + 1, s3,
                        is_articulation
                            \/ (s3.ord[v] # 1 /\ s3.ord[v] <= s3.low[u]),
                        num_child + 1)
            ELSE articulation_loop(graph, v, k + 1,
                     [st EXCEPT !.low[v] = Min2(@, st.ord[u])],
                     is_articulation, num_child)

\* (arts, visited), and with them the ord, low and parent the search ended with
get_articulation(graph, v) ==
    IF graph = <<>>
    THEN [arts |-> <<>>, visited |-> <<>>, ord |-> <<>>, low |-> <<>>,
          parent |-> <<>>]
    ELSE LET st == articulation_dfs(graph, v,
                       [visited |-> [u \in DOMAIN graph |-> FALSE],
                        ord     |-> [u \in DOMAIN graph |-> 0],
                        low     |-> [u \in DOMAIN graph |-> 0],
                        ord_cnt |-> 0,
                        arts    |-> <<>>,
                        parent  |-> [u \in DOMAIN graph |-> 0]])
         IN [arts |-> st.arts, visited |-> st.visited, ord |-> st.ord,
             low |-> st.low, parent |-> st.parent]

(***************************************************************************)
(* SpecArticulation: get_articulation on the symmetric graphs of up to     *)
(* MaxVertices vertices, with the lists in ascending or descending order,  *)
(* and with a self-loop on one vertex or one edge listed twice             *)
(***************************************************************************)
MaxVertices == 4

VertexPairs(n) == {ab \in (1 .. n) \X (1 .. n) : ab[1] < ab[2]}

\* S in ascending order
RECURSIVE Ascending(_)
Ascending(S) ==
    IF S = {} THEN <<>>
    ELSE LET x == CHOOSE y \in S : \A z \in S : y <= z
         IN <<x>> \o Ascending(S \ {x})

Reverse(seq) == [k \in DOMAIN seq |-> seq[Len(seq) + 1 - k]]

\* the adjacency lists of the edge set E on n vertices, with a self-loop on
\* the vertices of loops and the edges of twice listed a second time
ListsOf(n, E, loops, twice, down) ==
    [v \in 1 .. n |->
        LET nb == {u \in 1 .. n : <<u, v>> \in E \/ <<v, u>> \in E}
            tw == {u \in 1 .. n : <<u, v>> \in twice \/ <<v, u>> \in twice}
            ls == Ascending(nb)
        IN (IF v \in loops THEN <<v>> ELSE <<>>)
               \o (IF down THEN Reverse(ls) ELSE ls)
               \o Ascending(tw)]

\* plain, or with one self-loop, or with one edge listed twice
Extras(n, E) ==
    {<<{}, {}>>} \cup {<<{v}, {}>> : v \in 1 .. n} \cup {<<{}, {e}>> : e \in E}

InitArticulation ==
    /\ \E n \in 0 .. MaxVertices :
          \E E \in SUBSET VertexPairs(n) :
              \E x \in Extras(n, E), down \in BOOLEAN :
                  args = [op |-> "input",
                          graph |-> ListsOf(n, E, x[1], x[2], down)]
    /\ NoMachine

\* the search starts at the first vertex, as in run, or at the last
GetArticulation ==
    \E v \in {1, Max2(1, Len(args.graph))} :
        Computed([op |-> "get_articulation", graph |-> args.graph, v |-> v,
                  out |-> get_articulation(args.graph, v)])

NextArticulation ==
    \/ GetArticulation

SpecArticulation == InitArticulation /\ [][NextArticulation]_vars

\* the vertices joined to a vertex of R by the lists of graph, none of cut
\* being passed
RECURSIVE Reach(_, _, _)
Reach(graph, R, cut) ==
    LET R2 == R \cup {u \in DOMAIN graph \ cut :
                        \E w \in R : \E k \in DOMAIN graph[w] : graph[w][k] = u}
    IN IF R2 = R THEN R ELSE Reach(graph, R2, cut)

\* removing x disconnects the component comp
Disconnects(graph, comp, x) ==
    LET rest == comp \ {x}
    IN rest # {} /\ Reach(graph, {CHOOSE y \in rest : TRUE}, {x}) # rest

\* C26: get_articulation(graph, v) on a symmetric graph returns visited =
\* the vertices reachable from v and arts = the vertices of that component
\* whose removal disconnects it, each once; a vertex other than v is listed
\* iff a DFS child u of it has low[u] >= ord of the vertex, and v iff it has
\* more than one DFS child.
C26_Articulation ==
    args.op = "get_articulation" /\ args.graph # <<>> =>
        LET graph == args.graph
            out   == args.out
            comp  == Reach(graph, {args.v}, {})
            listed == {out.arts[k] : k \in DOMAIN out.arts}
            children(x) == {u \in DOMAIN graph : out.parent[u] = x}
        IN /\ out.visited = [u \in DOMAIN graph |-> u \in comp]
           /\ listed = {x \in comp : Disconnects(graph, comp, x)}
           /\ Cardinality(listed) = Len(out.arts)
           /\ \A x \in comp \ {args.v} :
                 x \in listed <=>
                     \E u \in children(x) : out.low[u] >= out.ord[x]
           /\ args.v \in listed <=> Cardinality(children(args.v)) > 1

\* a graph with a self-loop, searched from a vertex whose removal disconnects
\* it, with a second articulation point further on
C26_Witness ==
    /\ args.op = "get_articulation"
    /\ Len(args.graph) = 4
    /\ \E x \in DOMAIN args.graph :
          \E k \in DOMAIN args.graph[x] : args.graph[x][k] = x
    /\ Len(args.out.arts) = 2
    /\ \E k \in DOMAIN args.out.arts : args.out.arts[k] = args.v

(***************************************************************************)
(* ConnectMap: the regions of cells known to be on one side, each named by *)
(* its least cell id.  A ConnectMap is [coord, side, sum_of_hint,          *)
(* unknown_edge], each a function of the cell id giving the field of the   *)
(* record of the cell's region.                                            *)
(***************************************************************************)
RECURSIVE SumHints(_, _)
SumHints(pz, S) ==
    IF S = {} THEN 0
    ELSE LET x == CHOOSE y \in S : TRUE
         IN (IF pz.hint[x] = <<>> THEN 0 ELSE pz.hint[x][1]) + SumHints(pz, S \ {x})

\* the ConnectMap after sync(side_map) has returned Ok
ConnectMap_sync(sm, pz) ==
    LET ids == 0 .. (cell_len(sm.size) - 1)
        lab == RegionLabels(sm, [i \in ids |-> i])
        region(i) == {j \in ids : lab[j] = lab[i]}
    IN [coord |-> lab,
        side  |-> [i \in ids |-> Solver_get_side(sm, lab[i])],
        sum_of_hint |->
            [i \in ids |-> SumHints(pz, region(i) \ {OUTSIDE_CELL_ID})],
        unknown_edge |->
            [i \in ids |->
                Ascending({lab[n] : n \in {x \in ids : \E j \in region(i) :
                    /\ Adjacent(sm.size, j, x)
                    /\ get_edge(sm, j, x) = "Unknown"}})]]

\* conn_map.get(p): the record of the region of p
ConnectMap_get(cm, p) ==
    [coord        |-> cm.coord[p],
     side         |-> cm.side[p],
     sum_of_hint  |-> cm.sum_of_hint[p],
     unknown_edge |-> cm.unknown_edge[p]]

ConnectMap_cell_len(cm) == Cardinality(DOMAIN cm.coord)

\* pts.sort(): ascending, equal entries kept
RECURSIVE sort(_)
sort(seq) ==
    IF seq = <<>> THEN <<>>
    ELSE LET k == CHOOSE a \in DOMAIN seq : \A b \in DOMAIN seq : seq[a] <= seq[b]
         IN <<seq[k]>> \o sort(SubSeq(seq, 1, k - 1) \o SubSeq(seq, k + 1, Len(seq)))

\* pts.binary_search(&x).ok(): <<>> for None, else <<position>>.  Among equal
\* entries the build decides which position is found: the first (hit = 1) or
\* the last (hit = 2).
binary_search(pts, x, hit) ==
    LET found == {k \in DOMAIN pts : pts[k] = x}
    IN IF found = {} THEN <<>>
       ELSE IF hit = 1 THEN <<CHOOSE k \in found : \A j \in found : k <= j>>
       ELSE <<CHOOSE k \in found : \A j \in found : k >= j>>

\* the loop 0 .. cell_len of create_conn_graph from cell i
RECURSIVE push_regions(_, _, _, _)
push_regions(cm, filter_side, pts, i) ==
    IF i >= ConnectMap_cell_len(cm) THEN pts
    ELSE LET a == ConnectMap_get(cm, i)
         IN push_regions(cm, filter_side,
                IF a.coord = i /\ a.side # filter_side THEN Append(pts, i) ELSE pts,
                i + 1)

RECURSIVE filter_map(_, _, _, _)
filter_map(list, pts, hit, k) ==
    IF k > Len(list) THEN <<>>
    ELSE binary_search(pts, list[k], hit) \o filter_map(list, pts, hit, k + 1)

\* create_conn_graph that adds the outside cell when the filter is not In
create_conn_graph_filter_in(cm, filter_side, hit) ==
    LET pts == sort(push_regions(cm, filter_side,
                        IF filter_side # "In" THEN <<OUTSIDE_CELL_ID>> ELSE <<>>,
                        0))
    IN [pts   |-> pts,
        graph |-> [k \in DOMAIN pts |->
                     filter_map(ConnectMap_get(cm, pts[k]).unknown_edge,
                                pts, hit, 1)]]

create_conn_graph(cm, filter_side, hit) ==
    LET pts == sort(push_regions(cm, filter_side,
                        IF filter_side # "Out" THEN <<OUTSIDE_CELL_ID>> ELSE <<>>,
                        0))
    IN [pts   |-> pts,
        graph |-> [k \in DOMAIN pts |->
                     filter_map(ConnectMap_get(cm, pts[k]).unknown_edge,
                                pts, hit, 1)]]

\* the vertices u with visited[u] = want, ascending
RECURSIVE collect(_, _, _)
collect(visited, want, u) ==
    IF u > Len(visited) THEN <<>>
    ELSE (IF visited[u] = want THEN <<u>> ELSE <<>>) \o collect(visited, want, u + 1)

RECURSIVE sum_of(_, _, _, _)
sum_of(cm, pts, list, k) ==
    IF k > Len(list) THEN 0
    ELSE ConnectMap_get(cm, pts[list[k]]).sum_of_hint + sum_of(cm, pts, list, k + 1)

\* find_disconn_area that gives up once the unvisited part has hints
find_disconn_area_unvisited_only(cm, pts, visited) ==
    LET disconn == collect(visited, FALSE, 1)
    IN IF disconn = <<>> THEN disconn
       ELSE IF sum_of(cm, pts, disconn, 1) = 0 THEN disconn
       ELSE <<>>

\* always Ok: the list returned
find_disconn_area(cm, pts, visited) ==
    LET disconn == collect(visited, FALSE, 1)
        conn    == collect(visited, TRUE, 1)
    IN IF disconn = <<>> THEN disconn
       ELSE IF sum_of(cm, pts, disconn, 1) = 0 THEN disconn
       ELSE IF sum_of(cm, pts, conn, 1) = 0 THEN conn
       ELSE <<>>

\* dfs of splits: [contains, visited]
RECURSIVE splits_dfs(_, _, _, _, _, _)
RECURSIVE splits_dfs_loop(_, _, _, _, _, _, _)
splits_dfs(graph, v, visited, cm, pts, side) ==
    splits_dfs_loop(graph, v, 1,
                    [contains |-> ConnectMap_get(cm, pts[v]).side = side,
                     visited  |-> [visited EXCEPT ![v] = TRUE]],
                    cm, pts, side)

splits_dfs_loop(graph, v, k, st, cm, pts, side) ==
    IF k > Len(graph[v]) THEN st
    ELSE LET u == graph[v][k]
         IN IF u = v \/ st.visited[u]
            THEN splits_dfs_loop(graph, v, k + 1, st, cm, pts, side)
            ELSE LET r == splits_dfs(graph, u, st.visited, cm, pts, side)
                 IN splits_dfs_loop(graph, v, k + 1,
                        [contains |-> st.contains \/ r.contains,
                         visited  |-> r.visited],
                        cm, pts, side)

\* the loop of splits over graph[v]: the number of searches that found a
\* region of the side
RECURSIVE splits_loop(_, _, _, _, _, _, _, _)
splits_loop(graph, v, k, visited, contain_cnt, cm, pts, side) ==
    IF k > Len(graph[v]) THEN contain_cnt
    ELSE LET u == graph[v][k]
         IN IF u = v \/ visited[u]
            THEN splits_loop(graph, v, k + 1, visited, contain_cnt, cm, pts, side)
            ELSE LET r == splits_dfs(graph, u, visited, cm, pts, side)
                 IN splits_loop(graph, v, k + 1, r.visited,
                                IF r.contains THEN contain_cnt + 1 ELSE contain_cnt,
                                cm, pts, side)

\* splits that is content with one part holding a region of the side
splits_one_part(graph, v, cm, pts, side) ==
    IF graph = <<>> THEN FALSE
    ELSE splits_loop(graph, v, 1,
                     [[u \in DOMAIN graph |-> FALSE] EXCEPT ![v] = TRUE],
                     0, cm, pts, side) > 0

splits(graph, v, cm, pts, side) ==
    IF graph = <<>> THEN FALSE
    ELSE splits_loop(graph, v, 1,
                     [[u \in DOMAIN graph |-> FALSE] EXCEPT ![v] = TRUE],
                     0, cm, pts, side) > 1

\* the set_side calls of run for the vertices of list, from position k
RECURSIVE set_each(_, _, _, _, _)
set_each(sm, pts, list, side, k) ==
    IF k > Len(list) THEN sm
    ELSE set_each(set_side(sm, cellid_to_point(sm.size, pts[list[k]]), side).sm,
                  pts, list, side, k + 1)

\* the loop of run over arts from position k: st is [side_map, forced], forced
\* the vertices set so far
RECURSIVE force_arts(_, _, _, _, _, _)
force_arts(st, cm, g, arts, side, k) ==
    IF k > Len(arts) THEN st
    ELSE LET v == arts[k]
             p == g.pts[v]
         IN force_arts(
                IF /\ ConnectMap_get(cm, p).side # side
                   /\ splits(g.graph, v, cm, g.pts, side)
                THEN [side_map |-> set_side(st.side_map,
                                            cellid_to_point(st.side_map.size, p),
                                            side).sm,
                      forced   |-> Append(st.forced, v)]
                ELSE st,
                cm, g, arts, side, k + 1)

\* one round of the loop of run; the record keeps what the round read and did
run_pass(sm, cm, side, filter_side, hit) ==
    LET g       == create_conn_graph(cm, filter_side, hit)
        a       == get_articulation(g.graph, 1)
        disconn == find_disconn_area(cm, g.pts, a.visited)
        mid     == set_each(sm, g.pts, disconn, filter_side, 1)
        done    == force_arts([side_map |-> mid, forced |-> <<>>], cm, g,
                              a.arts, side, 1)
    IN [set_side |-> side, filter_side |-> filter_side,
        conn_map |-> cm, sm_in |-> sm, sm_mid |-> mid, side_map |-> done.side_map,
        pts |-> g.pts, graph |-> g.graph, arts |-> a.arts, visited |-> a.visited,
        disconn |-> disconn, forced |-> done.forced]

\* run: [ok, side_map, passes]
run(sm, pz, hit) ==
    IF ~sync_connection(sm)
    THEN [ok |-> FALSE, side_map |-> sm, passes |-> <<>>]
    ELSE LET cm == ConnectMap_sync(sm, pz)
             p1 == run_pass(sm, cm, "In", "Out", hit)
             p2 == run_pass(p1.side_map, cm, "Out", "In", hit)
         IN [ok |-> TRUE, side_map |-> p2.side_map, passes |-> <<p1, p2>>]

(***************************************************************************)
(* SpecConnect: a puzzle of three or four cells whose hints are 1s, set    *)
(* calls of the search and of the theorems, and runs of the analysis       *)
(***************************************************************************)
ConnectSizes == {<<1, 3>>, <<2, 2>>}

ConnectPuzzles ==
    UNION {{[size |-> sz,
             hint |-> [id \in 1 .. (cell_len(sz) - 1) |->
                          IF id \in H THEN <<1>> ELSE <<>>]] :
               H \in SubsetsUpTo(1 .. (cell_len(sz) - 1), MaxHints)} :
           sz \in ConnectSizes}

InitConnect ==
    /\ \E pz \in ConnectPuzzles, hit \in {1, 2} :
          /\ puzzle = pz
          /\ side_map = SideMap_new(pz.size)
          /\ events = [hit |-> hit, op |-> "new", ok |-> TRUE, passes |-> <<>>]
    /\ ret = <<>>
    /\ known = <<>>
    /\ pool = <<>>
    /\ calls = <<>>
    /\ driver = <<>>
    /\ probe = <<>>
    /\ args = <<>>

ConnectCalled(op, ok, sm, passes) ==
    /\ side_map' = sm
    /\ events' = [hit |-> events.hit, op |-> op, ok |-> ok, passes |-> passes]
    /\ UNCHANGED <<ret, known, pool, calls, puzzle, driver, probe, args>>

\* the case split of the search on a cell whose side is Unknown
ConnectSetSide ==
    \E id \in 1 .. (cell_len(side_map.size) - 1), ty \in {"In", "Out"} :
        /\ Solver_get_side(side_map, id) = "Unknown"
        /\ ConnectCalled("set_side", TRUE,
               set_side(side_map, cellid_to_point(side_map.size, id), ty).sm, <<>>)

\* a result edge of a theorem between two grid cells, not known before
ConnectSetEdge ==
    \E a, b \in 1 .. (cell_len(side_map.size) - 1), e \in Edges :
        /\ a < b
        /\ Adjacent(side_map.size, a, b)
        /\ get_edge(side_map, a, b) = "Unknown"
        /\ ConnectCalled("set_edge", TRUE, set_edge(side_map, a, b, e).sm, <<>>)

ConnectAnalysis ==
    \E r \in {run(side_map, puzzle, events.hit)} :
        ConnectCalled("run", r.ok, r.side_map, r.passes)

NextConnect ==
    \/ ConnectSetSide
    \/ ConnectSetEdge
    \/ ConnectAnalysis

SpecConnect == InitConnect /\ [][NextConnect]_vars

Passes == DOMAIN events.passes

\* C24 as stated: in every round of run the ConnectMap read is the one a sync
\* against the SideMap of that moment gives, at the start of the round and
\* after the set_side calls for the disconnected vertices.
C24_ReadsSynced ==
    events.op = "run" =>
        \A k \in Passes :
            LET ps == events.passes[k]
            IN /\ sync_connection(ps.sm_in) =>
                     ps.conn_map = ConnectMap_sync(ps.sm_in, puzzle)
               /\ ps.arts # <<>> /\ sync_connection(ps.sm_mid) =>
                     ps.conn_map = ConnectMap_sync(ps.sm_mid, puzzle)

\* the representatives of the regions whose side is not the filter
Vertices(cm, filter_side) ==
    {i \in DOMAIN cm.coord : cm.coord[i] = i /\ cm.side[i] # filter_side}

\* the entries of seq that are in S, in order
RECURSIVE Keep(_, _)
Keep(seq, S) ==
    IF seq = <<>> THEN <<>>
    ELSE (IF Head(seq) \in S THEN <<Head(seq)>> ELSE <<>>) \o Keep(Tail(seq), S)

\* the cells the lists of the graph of a round lead to
LinksOf(ps, k) == [j \in DOMAIN ps.graph[k] |-> ps.pts[ps.graph[k][j]]]

\* C25 as stated: the vertices of a round are the outside cell when the side
\* analysed is In, and the representatives of the regions whose side is not
\* the filter.
C25_GraphOutsideWhenIn ==
    events.op = "run" =>
        \A k \in Passes :
            LET ps == events.passes[k]
            IN {ps.pts[j] : j \in DOMAIN ps.pts} =
                  (IF ps.set_side = "In" THEN {OUTSIDE_CELL_ID} ELSE {})
                      \cup Vertices(ps.conn_map, ps.filter_side)

\* C25 amended: the vertex list of a round is the outside cell when the side
\* analysed is Out (the filter In), followed by the representatives of the
\* regions whose side is not the filter in ascending order, so that the
\* outside cell is listed twice when it represents its region; the list of
\* each vertex leads to the unknown_edge entries of its region that are
\* vertices, in their order; and the search starts at the first vertex.
C25_Graph ==
    events.op = "run" =>
        \A k \in Passes :
            LET ps == events.passes[k]
                vs == Vertices(ps.conn_map, ps.filter_side)
            IN /\ ps.pts = (IF ps.set_side = "Out" THEN <<OUTSIDE_CELL_ID>> ELSE <<>>)
                              \o Ascending(vs)
               /\ \A v \in DOMAIN ps.pts :
                     LinksOf(ps, v) =
                         Keep(ps.conn_map.unknown_edge[ps.pts[v]],
                              {ps.pts[j] : j \in DOMAIN ps.pts})
               /\ ps.pts # <<>> =>
                     /\ ps.visited[1]
                     /\ \A v \in DOMAIN ps.pts :
                           ps.visited[v] <=> v \in Reach(ps.graph, {1}, {})

\* a run whose round for In has two joined vertices and drops a link to a
\* region that is Out, and whose round for Out lists the outside cell twice
C25_Witness ==
    /\ events.op = "run"
    /\ events.ok
    /\ Len(events.passes[1].pts) >= 2
    /\ events.passes[1].pts[1] # OUTSIDE_CELL_ID
    /\ events.passes[1].graph[1] # <<>>
    /\ Len(events.passes[1].graph[1])
         < Len(events.passes[1].conn_map.unknown_edge[events.passes[1].pts[1]])
    /\ events.passes[2].pts[1] = OUTSIDE_CELL_ID
    /\ events.passes[2].pts[2] = OUTSIDE_CELL_ID

\* the hints of the regions of the vertices V of a round
HintsOf(ps, V) ==
    SumOver([v \in DOMAIN ps.pts |-> ps.conn_map.sum_of_hint[ps.pts[v]]], V)

\* the cells of the vertices find_disconn_area returned in a round
DisconnCells(ps) == {ps.pts[ps.disconn[j]] : j \in DOMAIN ps.disconn}

\* C27: find_disconn_area returns nothing when every vertex was visited,
\* else the unvisited vertices when their regions hold no hint, else the
\* visited vertices when theirs hold no hint, else nothing; and run sets the
\* filter side on the returned vertices and on nothing else: each of them is
\* on the filter side (or in conflict) afterwards, the SideMap changed at
\* most once per returned vertex, and a cell whose side changed is tied to a
\* returned vertex.
C27_DisconnArea ==
    events.op = "run" =>
        \A k \in Passes :
            LET ps  == events.passes[k]
                unv == {v \in DOMAIN ps.pts : ~ps.visited[v]}
                vis == {v \in DOMAIN ps.pts : ps.visited[v]}
                ids == 0 .. (cell_len(ps.sm_in.size) - 1)
            IN /\ ps.disconn =
                     (IF unv = {} THEN <<>>
                      ELSE IF HintsOf(ps, unv) = 0 THEN Ascending(unv)
                      ELSE IF HintsOf(ps, vis) = 0 THEN Ascending(vis)
                      ELSE <<>>)
               /\ \A c \in DisconnCells(ps) :
                     Solver_get_side(ps.sm_mid, c) \in {ps.filter_side, "Conflict"}
               /\ revision(ps.sm_mid) <= revision(ps.sm_in) + Len(ps.disconn)
               /\ ps.disconn = <<>> => ps.sm_mid = ps.sm_in
               /\ \A c \in ids :
                     Solver_get_side(ps.sm_mid, c) # Solver_get_side(ps.sm_in, c) =>
                         \E d \in DisconnCells(ps) :
                             \/ SideMapInner_is_same(ps.sm_mid, c, d)
                             \/ SideMapInner_is_different(ps.sm_mid, c, d)

\* a run with a round where the part not reached holds a hint, the part
\* reached holds none and is handed to the filter side, and a round where
\* both parts hold hints and nothing is returned
C27_Witness ==
    /\ events.op = "run"
    /\ events.ok
    /\ \E k \in Passes :
          LET ps == events.passes[k]
          IN /\ ps.disconn # <<>>
             /\ \A j \in DOMAIN ps.disconn : ps.visited[ps.disconn[j]]
             /\ \E v \in DOMAIN ps.pts : ~ps.visited[v]
             /\ ps.sm_mid # ps.sm_in
    /\ \E k \in Passes :
          LET ps == events.passes[k]
          IN /\ ps.disconn = <<>>
             /\ \E v \in DOMAIN ps.pts : ~ps.visited[v]

\* the parts the graph of a round falls into once v is deleted, as far as
\* they hold a neighbour of v
PartsWithout(ps, v) ==
    {Reach(ps.graph, {ps.graph[v][j]}, {v}) :
        j \in {i \in DOMAIN ps.graph[v] : ps.graph[v][i] # v}}

\* the part holds a region whose side the ConnectMap of the round has as side
HoldsSide(ps, part, side) ==
    \E u \in part : ps.conn_map.side[ps.pts[u]] = side

\* deleting v leaves two or more parts that each hold a region of the side
MustBe(ps, v, side) ==
    Cardinality({part \in PartsWithout(ps, v) : HoldsSide(ps, part, side)}) >= 2

\* C28: for an articulation vertex v of a round, splits is true iff deleting
\* v leaves at least two parts (among those holding a neighbour of v) that
\* each hold a region of the side analysed; and run calls set_side(v, s) for
\* exactly the articulation vertices whose region is not of side s and for
\* which splits is true, the vertex the search started at included.
C28_Splits ==
    events.op = "run" =>
        \A k \in Passes :
            LET ps == events.passes[k]
                arts == {ps.arts[j] : j \in DOMAIN ps.arts}
                due  == {v \in arts :
                            /\ ps.conn_map.side[ps.pts[v]] # ps.set_side
                            /\ MustBe(ps, v, ps.set_side)}
            IN /\ \A v \in arts :
                     splits(ps.graph, v, ps.conn_map, ps.pts, ps.set_side)
                        <=> MustBe(ps, v, ps.set_side)
               /\ {ps.forced[j] : j \in DOMAIN ps.forced} = due
               /\ Len(ps.forced) = Cardinality(due)
               /\ \A v \in due :
                     Solver_get_side(ps.side_map, ps.pts[v])
                         \in {ps.set_side, "Conflict"}
               /\ due = {} => ps.side_map = ps.sm_mid

\* a run whose round for In sets the vertex the search started at, which was
\* of unknown side, and whose round for Out has an articulation vertex that
\* is left alone
C28_Witness ==
    /\ events.op = "run"
    /\ events.ok
    /\ Len(events.passes[1].forced) > 0
    /\ events.passes[1].forced[1] = 1
    /\ events.passes[1].conn_map.side[events.passes[1].pts[1]] = "Unknown"
    /\ Solver_get_side(events.passes[1].side_map, events.passes[1].pts[1]) = "In"
    /\ events.passes[2].arts # <<>>
    /\ events.passes[2].forced = <<>>

(***************************************************************************)
(* SpecCommon: a case split of the search on a fresh board, set calls on   *)
(* the two branches, and mark_common on the solver the branches came from. *)
(* args is [op, s0, s1, sets, before, log]: the SideMaps of the branches,  *)
(* the number of set calls made on them, the SideMap of the parent before  *)
(* mark_common and the set calls mark_common made on it.                   *)
(***************************************************************************)
MaxBranchSets == 4   \* set calls on the branches of one case split

CommonSizes == {<<1, 3>>, <<2, 2>>}

\* the set_side calls of the first loop of mark_common from cell i
RECURSIVE CommonSideCalls(_, _, _)
CommonSideCalls(s0, s1, i) ==
    IF i >= cell_len(s0.size) THEN <<>>
    ELSE LET side == Solver_get_side(s0, i)
         IN (IF side \in {"In", "Out"} /\ Solver_get_side(s1, i) = side
             THEN <<[op |-> "set_side", p0 |-> i, p1 |-> i, v |-> side]>>
             ELSE <<>>) \o CommonSideCalls(s0, s1, i + 1)

\* the set_edge calls of the second and third loop of mark_common from cell i
RECURSIVE CommonEdgeCalls(_, _, _, _)
CommonEdgeCalls(s0, s1, i, d) ==
    IF i >= cell_len(s0.size) - d THEN <<>>
    ELSE LET e == get_edge(s0, i, i + d)
         IN (IF e \in {"Line", "Cross"} /\ get_edge(s1, i, i + d) = e
             THEN <<[op |-> "set_edge", p0 |-> i, p1 |-> i + d, v |-> e]>>
             ELSE <<>>) \o CommonEdgeCalls(s0, s1, i + 1, d)

\* the set calls of mark_common on the parent, in the order made
mark_common_calls(s0, s1) ==
    CommonSideCalls(s0, s1, 0) \o CommonEdgeCalls(s0, s1, 0, 1)
        \o CommonEdgeCalls(s0, s1, 0, s0.size[2])

InitCommon ==
    /\ \E sz \in CommonSizes :
          /\ side_map = SideMap_new(sz)
          /\ args = [op |-> "new", s0 |-> SideMap_new(sz), s1 |-> SideMap_new(sz),
                      sets |-> 0, before |-> SideMap_new(sz), log |-> <<>>]
    /\ ret = <<>>
    /\ known = <<>>
    /\ pool = <<>>
    /\ calls = <<>>
    /\ events = <<>>
    /\ puzzle = <<>>
    /\ driver = <<>>
    /\ probe = <<>>

CommonCalled(parent, a) ==
    /\ side_map' = parent
    /\ args' = a
    /\ UNCHANGED <<ret, known, pool, calls, events, puzzle, driver, probe>>

\* the case split: the solver is cloned twice, one clone gets the cell inside
\* and the other gets it outside
CommonSplit ==
    \E id \in 1 .. (cell_len(side_map.size) - 1) :
        /\ args.op = "new"
        /\ Solver_get_side(side_map, id) = "Unknown"
        /\ CommonCalled(side_map,
               [args EXCEPT !.op = "split",
                            !.s0 = Solver_set_inside(side_map, id),
                            !.s1 = Solver_set_outside(side_map, id)])

\* sm after a set call of the propagation: a side for a cell that does not
\* have it, or an edge between two adjacent cells that is not known
BranchSets(sm) ==
    {set_side(sm, cellid_to_point(sm.size, id), ty).sm :
        id \in {c \in 1 .. (cell_len(sm.size) - 1) :
                   Solver_get_side(sm, c) # "Conflict"},
        ty \in {"In", "Out"}}
    \cup
    {set_edge(sm, ab[1], ab[2], e).sm :
        ab \in {x \in (0 .. (cell_len(sm.size) - 1)) \X (1 .. (cell_len(sm.size) - 1)) :
                   /\ x[1] < x[2]
                   /\ Adjacent(sm.size, x[1], x[2])
                   /\ get_edge(sm, x[1], x[2]) = "Unknown"},
        e \in Edges}

\* the propagation of the first branch makes a set call
CommonBranch0 ==
    \E sm \in BranchSets(args.s0) :
        /\ args.op = "split"
        /\ args.sets < MaxBranchSets
        /\ sm # args.s0
        /\ CommonCalled(side_map, [args EXCEPT !.s0 = sm, !.sets = @ + 1])

\* the propagation of the second branch makes a set call
CommonBranch1 ==
    \E sm \in BranchSets(args.s1) :
        /\ args.op = "split"
        /\ args.sets < MaxBranchSets
        /\ sm # args.s1
        /\ CommonCalled(side_map, [args EXCEPT !.s1 = sm, !.sets = @ + 1])

MarkCommon ==
    /\ args.op = "split"
    /\ CommonCalled(mark_common(side_map, args.s0, args.s1),
           [args EXCEPT !.op = "mark_common", !.before = side_map,
                        !.log = mark_common_calls(args.s0, args.s1)])

NextCommon ==
    \/ CommonSplit
    \/ CommonBranch0
    \/ CommonBranch1
    \/ MarkCommon

SpecCommon == InitCommon /\ [][NextCommon]_vars

\* sm after the set calls of log from position k
RECURSIVE Replay(_, _, _)
Replay(sm, log, k) ==
    IF k > Len(log) THEN sm
    ELSE Replay(IF log[k].op = "set_side"
                THEN set_side(sm, cellid_to_point(sm.size, log[k].p0), log[k].v).sm
                ELSE set_edge(sm, log[k].p0, log[k].p1, log[k].v).sm,
                log, k + 1)

\* the pairs of grid cells next to each other in a row or in a column
GridNeighbours(size) ==
    {ab \in (1 .. (cell_len(size) - 1)) \X (1 .. (cell_len(size) - 1)) :
        ab[1] < ab[2] /\ Adjacent(size, ab[1], ab[2])}

\* C29: after mark_common(s0, s1) the parent reports, for every cell on
\* which both branches report the same fixed side, that side or Conflict,
\* and for every pair of grid cells adjacent in a row or a column on which
\* both report the same fixed edge, that edge or Conflict; every set call
\* made on the parent is for a cell or a pair on which both branches report
\* the value set, so none is made where a branch is Unknown or Conflict or
\* where the branches disagree.
C29_MarkCommon ==
    args.op = "mark_common" =>
        /\ \A c \in 0 .. (cell_len(side_map.size) - 1) :
              LET side == Solver_get_side(args.s0, c)
              IN side \in {"In", "Out"} /\ Solver_get_side(args.s1, c) = side =>
                    Solver_get_side(side_map, c) \in {side, "Conflict"}
        /\ \A ab \in GridNeighbours(side_map.size) :
              LET e == get_edge(args.s0, ab[1], ab[2])
              IN e \in Edges /\ get_edge(args.s1, ab[1], ab[2]) = e =>
                    get_edge(side_map, ab[1], ab[2]) \in {e, "Conflict"}
        /\ side_map = Replay(args.before, args.log, 1)
        /\ \A k \in DOMAIN args.log :
              LET call == args.log[k]
              IN IF call.op = "set_side"
                 THEN /\ call.v \in {"In", "Out"}
                      /\ Solver_get_side(args.s0, call.p0) = call.v
                      /\ Solver_get_side(args.s1, call.p0) = call.v
                 ELSE /\ call.v \in Edges
                      /\ get_edge(args.s0, call.p0, call.p1) = call.v
                      /\ get_edge(args.s1, call.p0, call.p1) = call.v

\* the branches agree on the side of a cell other than the one split on and
\* on an edge that leaves the side of its first cell open, and disagree on
\* the cell split on; the parent has taken the two agreements over and has
\* the cell split on Unknown
C29_Witness ==
    /\ args.op = "mark_common"
    /\ \E c \in 1 .. (cell_len(side_map.size) - 1) :
          /\ Solver_get_side(args.before, c) = "Unknown"
          /\ Solver_get_side(side_map, c) \in {"In", "Out"}
    /\ \E ab \in GridNeighbours(side_map.size) :
          /\ get_edge(args.before, ab[1], ab[2]) = "Unknown"
          /\ get_edge(side_map, ab[1], ab[2]) \in Edges
          /\ Solver_get_side(side_map, ab[1]) = "Unknown"
    /\ \E c \in 1 .. (cell_len(side_map.size) - 1) :
          /\ Solver_get_side(args.s0, c) = "In"
          /\ Solver_get_side(args.s1, c) = "Out"
          /\ Solver_get_side(side_map, c) = "Unknown"

\* C30 as stated: every set_edge call of mark_common is for two adjacent
\* grid cells or for a border cell and the outside cell.
C30_SetEdgeAdjacent ==
    args.op = "mark_common" =>
        \A k \in DOMAIN args.log :
            args.log[k].op = "set_edge" =>
                Adjacent(side_map.size, args.log[k].p0, args.log[k].p1)

(***************************************************************************)
(* The parity nodes of the SideMap                                         *)
(***************************************************************************)
\* the number of sets of the union-find
SetCount(uf) == Cardinality({uf[k] : k \in DOMAIN uf})

\* C32 as stated: a cell whose two parity nodes are in one set has the side
\* Conflict.
C32_MergedIsConflict ==
    \A p \in GridPoints(side_map.size) :
        UnionFind_find(side_map.uf, key0(cell_id(side_map, p)),
                       key1(cell_id(side_map, p)))
            => get_side(side_map, p) = "Conflict"

\* C32 amended: a cell whose two parity nodes are in one set has the side
\* Conflict iff the outside cell is tied to that set, and Unknown otherwise;
\* its relation to every cell tied to it, itself included, is Conflict; and
\* only such a cell has the side Conflict.
C32_MergedConflict ==
    \A p \in GridPoints(side_map.size) :
        LET i == cell_id(side_map, p)
            merged == UnionFind_find(side_map.uf, key0(i), key1(i))
            tied == UnionFind_find(side_map.uf, key0(i), key0(OUTSIDE_CELL_ID))
        IN /\ merged /\ tied => get_side(side_map, p) = "Conflict"
           /\ merged /\ ~tied => get_side(side_map, p) = "Unknown"
           /\ get_side(side_map, p) = "Conflict" => merged
           /\ merged =>
                 \A q \in InputPoints(side_map.size) :
                     UnionFind_find(side_map.uf, key0(i), key0(cell_id(side_map, q)))
                         => get_relation(side_map, p, q) = "Conflict"

\* one cell in conflict with the outside cell, and two more in conflict with
\* each other that nothing ties to the outside cell
C32_Witness ==
    \E p, q \in GridPoints(side_map.size) :
        /\ get_side(side_map, p) = "Conflict"
        /\ get_side(side_map, q) = "Unknown"
        /\ UnionFind_find(side_map.uf, key0(cell_id(side_map, q)),
                          key1(cell_id(side_map, q)))
        /\ get_relation(side_map, q, q) = "Conflict"

\* C39: the union-find is mirror-symmetric: the key0 nodes of two cells are
\* in one set iff their key1 nodes are, and key0 of one is with key1 of the
\* other iff key1 of the one is with key0 of the other; so is_same and
\* is_different answer alike whichever parity node is probed.
C39_MirrorSymmetric ==
    \A i, j \in CellIds(side_map.size) :
        /\ UnionFind_find(side_map.uf, key0(i), key0(j))
              <=> UnionFind_find(side_map.uf, key1(i), key1(j))
        /\ UnionFind_find(side_map.uf, key0(i), key1(j))
              <=> UnionFind_find(side_map.uf, key1(i), key0(j))
        /\ SideMapInner_is_same(side_map, i, j)
              <=> UnionFind_find(side_map.uf, key1(i), key1(j))
        /\ SideMapInner_is_different(side_map, i, j)
              <=> UnionFind_find(side_map.uf, key1(i), key0(j))

\* two grid cells known to be on the same side, a third known to be on the
\* other side, and none of them tied to the outside cell
C39_Witness ==
    \E i, j, k \in CellIds(side_map.size) \ {OUTSIDE_CELL_ID} :
        /\ i # j
        /\ SideMapInner_is_same(side_map, i, j)
        /\ ~SideMapInner_is_different(side_map, i, j)
        /\ SideMapInner_is_different(side_map, i, k)
        /\ ~SideMapInner_is_same(side_map, i, k)
        /\ ~SideMapInner_is_same(side_map, i, OUTSIDE_CELL_ID)
        /\ ~SideMapInner_is_different(side_map, i, OUTSIDE_CELL_ID)

\* C40: the revision never exceeds the number of merges made so far (the
\* nodes less the sets left), so it is at most 2 * (R * C + 1) - 1.
C40_RevisionBound ==
    LET nodes == 2 * (side_map.size[1] * side_map.size[2] + 1)
    IN /\ revision(side_map) <= nodes - SetCount(side_map.uf)
       /\ revision(side_map) <= nodes - 1

\* every node is in one set and a call changed the board for each cell
C40_Witness ==
    /\ SetCount(side_map.uf) = 1
    /\ revision(side_map) = side_map.size[1] * side_map.size[2] + 1
    /\ side_map.size[2] > 1

(***************************************************************************)
(* The error of apply_all                                                  *)
(***************************************************************************)
\* the entries of an index as a bag: how often each occurs
Occurrences(index, x) == Cardinality({k \in DOMAIN index : index[k] = x})

\* C33: apply_all returns the invalid-board error iff an entry it examined
\* had the edge Conflict; it examines the entries in order, each against
\* the SideMap of that moment, and returns at the first Conflict entry: no
\* later entry is examined and the index keeps all its entries.  Otherwise
\* it examines every entry and returns Ok, whatever the theorems it fired
\* did to the SideMap.
C33_ErrorIffConflict ==
    calls[2].op = "apply_all" =>
        LET exam   == events.exam
            before == events.before.index_by_edge
            hit    == {k \in DOMAIN exam : exam[k].edge = "Conflict"}
        IN /\ calls[2].ok <=> hit = {}
           /\ \A k \in DOMAIN exam :
                 /\ exam[k].r = k
                 /\ exam[k].edge = get_edge(exam[k].sm, exam[k].ibe.points[1],
                                            exam[k].ibe.points[2])
                 /\ k < Len(exam) => exam[k].edge # "Conflict"
           /\ Len(exam) <= Len(before)
           /\ calls[2].ok => Len(exam) = Len(before)
           /\ ~calls[2].ok =>
                 /\ exam[Len(exam)].edge = "Conflict"
                 /\ Len(pool.index_by_edge) = Len(before)
                 /\ \A k \in DOMAIN before :
                       Occurrences(pool.index_by_edge, before[k])
                           = Occurrences(before, before[k])

\* a pass that fired a theorem at its first entry, whose results put the
\* second entry in conflict, and returned the error with both entries kept
C33_Witness ==
    /\ calls[2].op = "apply_all"
    /\ ~calls[2].ok
    /\ Len(events.exam) = 2
    /\ events.exam[1].edge \in Edges
    /\ get_edge(events.exam[1].sm, events.exam[2].ibe.points[1],
                events.exam[2].ibe.points[2]) # "Conflict"
    /\ Len(pool.index_by_edge) = 2

\* a pass that returned Ok although a theorem it fired left an edge of the
\* board in conflict
C33_OkWitness ==
    /\ calls[2].op = "apply_all"
    /\ calls[2].ok
    /\ calls[2].changed
    /\ \E k \in DOMAIN events.log :
          /\ events.log[k].sm_after # events.log[k].sm_before
          /\ \E a, b \in CellIds(side_map.size) :
                /\ get_edge(events.log[k].sm_before, a, b) # "Conflict"
                /\ get_edge(events.log[k].sm_after, a, b) = "Conflict"

(***************************************************************************)
(* Clones.  The heap is a sequence of objects and an address is a position *)
(* in it.  A TheoremPool is [counts, results, index_by_edge], the          *)
(* addresses of its count vector, of the result table behind its Rc and of *)
(* its index vector; the index vector holds the addresses of the           *)
(* IndexByEdge objects behind its Rcs.  A Solver is [theorem_pool,         *)
(* side_map], side_map the address of its SideMap.                         *)
(***************************************************************************)
MaxCloneOps == 2   \* calls made on a solver and its clone

\* the heap with the objects objs added, and the address of the first
Alloc(heap, objs) == [heap |-> heap \o objs, at |-> Len(heap) + 1]

\* Clone for TheoremPool that hands out the count vector of the original
TheoremPool_clone_same_counts(heap, p) ==
    LET a == Alloc(heap, <<heap[p.index_by_edge]>>)
    IN [heap |-> a.heap,
        pool |-> [counts |-> p.counts, results |-> p.results,
                  index_by_edge |-> a.at]]

\* Clone for TheoremPool: counts.clone(), results.clone() (the Rc),
\* index_by_edge.clone() (a new vector of the same Rcs)
TheoremPool_clone(heap, p) ==
    LET a == Alloc(heap, <<heap[p.counts], heap[p.index_by_edge]>>)
    IN [heap |-> a.heap,
        pool |-> [counts |-> a.at, results |-> p.results,
                  index_by_edge |-> a.at + 1]]

\* Clone for Solver
Solver_clone(heap, s) ==
    LET c == TheoremPool_clone(heap, s.theorem_pool)
        a == Alloc(c.heap, <<c.heap[s.side_map]>>)
    IN [heap |-> a.heap,
        solver |-> [theorem_pool |-> c.pool, side_map |-> a.at]]

\* the pool at p as the value the pass works on
PoolAt(heap, p) ==
    [counts  |-> heap[p.counts],
     results |-> heap[p.results],
     index_by_edge |-> [k \in DOMAIN heap[p.index_by_edge] |->
                          heap[heap[p.index_by_edge][k]]]]

\* what a solver holds: its pool and its SideMap
SolverAt(heap, s) ==
    [pool |-> PoolAt(heap, s.theorem_pool), side_map |-> heap[s.side_map]]

\* the heap after a call on solver s left it with the pool value p and the
\* SideMap sm: the index vector holds the Rcs of the entries kept
Stored(heap, s, p, sm) ==
    LET old == heap[s.theorem_pool.index_by_edge]
        at(entry) == CHOOSE a \in {old[k] : k \in DOMAIN old} : heap[a] = entry
    IN [heap EXCEPT ![s.theorem_pool.counts] = p.counts,
                    ![s.theorem_pool.results] = p.results,
                    ![s.theorem_pool.index_by_edge] =
                        [k \in DOMAIN p.index_by_edge |-> at(p.index_by_edge[k])],
                    ![s.side_map] = sm]

\* the heap and the solver built from a matcher list on a fresh board
Solver_new(matchers, order) ==
    LET p == TheoremPool_new(matchers, order)
        n == Len(p.index_by_edge)
    IN [heap |-> [k \in 1 .. n |-> p.index_by_edge[k]]
                    \o <<p.counts, p.results, [k \in 1 .. n |-> k],
                         SideMap_new(EdgesSize)>>,
        solver |-> [theorem_pool |-> [counts |-> n + 1, results |-> n + 2,
                                      index_by_edge |-> n + 3],
                    side_map |-> n + 4]]

(***************************************************************************)
(* SpecClone: a solver on the board of one row and three cells is cloned   *)
(* for a case split; then passes and set calls on either of the two.       *)
(* args is [heap, solvers, ops, on, before, results]: solvers the original *)
(* and its clone, ops the number of calls made, on the solver the last     *)
(* call was made on (0 before any), before what each solver held before    *)
(* that call, results the result table as it was built.                    *)
(***************************************************************************)
InitClone ==
    /\ \E matchers \in MatcherListsOn(EdgesMatcherPairs, EdgesResults) :
         \E order \in Orders(IndexedPairs(matchers)) :
             \E made \in {Solver_new(matchers, order)} :
                 \E c \in {Solver_clone(made.heap, made.solver)} :
                     args = [heap |-> c.heap,
                             solvers |-> <<made.solver, c.solver>>,
                             ops |-> 0, on |-> 0,
                             before |-> <<SolverAt(c.heap, made.solver),
                                          SolverAt(c.heap, c.solver)>>,
                             results |-> c.heap[made.solver.theorem_pool.results]]
    /\ side_map = <<>>
    /\ pool = <<>>
    /\ calls = <<>>
    /\ events = <<>>
    /\ ret = <<>>
    /\ known = <<>>
    /\ puzzle = <<>>
    /\ driver = <<>>
    /\ probe = <<>>

\* a call on solver x left it with the pool value p and the SideMap sm
CloneCalled(x, p, sm) ==
    /\ args.ops < MaxCloneOps
    /\ args' = [args EXCEPT
                   !.heap = Stored(args.heap, args.solvers[x], p, sm),
                   !.ops = @ + 1,
                   !.on = x,
                   !.before = <<SolverAt(args.heap, args.solvers[1]),
                                SolverAt(args.heap, args.solvers[2])>>]
    /\ UNCHANGED <<side_map, pool, calls, events, ret, known, puzzle, driver, probe>>

\* Solver::apply_all_theorem on the original or on the clone
CloneApplyAll ==
    \E x \in {1, 2} :
        \E s \in {SolverAt(args.heap, args.solvers[x])} :
            \E done \in {apply_all(s.pool, s.side_map)} :
                CloneCalled(x, done.pool, done.side_map)

\* Solver::set_inside / set_outside on the original or on the clone
CloneSetSide ==
    \E x \in {1, 2}, p \in SplitPoints, ty \in {"In", "Out"} :
        \E s \in {SolverAt(args.heap, args.solvers[x])} :
            /\ get_side(s.side_map, p) = "Unknown"
            /\ CloneCalled(x, s.pool, set_side(s.side_map, p, ty).sm)

\* a set_edge call of the propagation on the original or on the clone
CloneSetEdge ==
    \E x \in {1, 2}, id \in CommonCells, e \in Edges :
        \E s \in {SolverAt(args.heap, args.solvers[x])} :
            /\ get_edge(s.side_map, id, id + 1) = "Unknown"
            /\ CloneCalled(x, s.pool, set_edge(s.side_map, id, id + 1, e).sm)

NextClone ==
    \/ CloneApplyAll
    \/ CloneSetSide
    \/ CloneSetEdge

SpecClone == InitClone /\ [][NextClone]_vars

\* C34: a call on the clone leaves the counts, the index, the SideMap
\* relations and the revision of the original as they were, and a call on
\* the original leaves those of the clone; and the result table the two
\* share is as it was built.
C34_CloneIndependent ==
    /\ args.heap[args.solvers[1].theorem_pool.results] = args.results
    /\ args.heap[args.solvers[2].theorem_pool.results] = args.results
    /\ \A x \in {1, 2} :
          args.on = x =>
              LET other == 3 - x
                  now   == SolverAt(args.heap, args.solvers[other])
                  was   == args.before[other]
              IN /\ now.pool.counts = was.pool.counts
                 /\ now.pool.index_by_edge = was.pool.index_by_edge
                 /\ now.side_map.uf = was.side_map.uf
                 /\ revision(now.side_map) = revision(was.side_map)
                 /\ now = was

\* the last call, on the clone, fired a theorem and shortened the index of
\* the clone; the original still has every count and entry it was built
\* with and a board without a known edge
C34_Witness ==
    /\ args.on = 2
    /\ LET orig  == SolverAt(args.heap, args.solvers[1])
           clone == SolverAt(args.heap, args.solvers[2])
       IN /\ Len(clone.pool.index_by_edge) < Len(orig.pool.index_by_edge)
          /\ clone.pool.counts # orig.pool.counts
          /\ revision(clone.side_map) > 1
          /\ revision(orig.side_map) = 0
          /\ clone.pool.results = orig.pool.results

(***************************************************************************)
(* create_matcher_list: the shifts at which a theorem without a Hint head  *)
(* is tried                                                                *)
(***************************************************************************)
\* the Rust range lo .. hi: hi is excluded, and the range is empty when
\* hi <= lo
Range(lo, hi) == [k \in 1 .. (hi - lo) |-> lo + k - 1]

\* the shifts along an axis that make the theorem overlap the grid
shift_range_overlap(sz, dim) == Range(1 - sz, dim)

\* (1 - sz) .. (dim + sz - 1) along one axis
shift_range(sz, dim) == Range(1 - sz, dim + sz - 1)

\* the Move(r, c) handed to shift_matches, in the order of the two loops
RECURSIVE nonhint_shifts(_, _, _)
nonhint_shifts(sz, size, k) ==
    LET rows == shift_range(sz[1], size[1])
        cols == shift_range(sz[2], size[2])
    IN IF k > Len(rows) THEN <<>>
       ELSE [j \in DOMAIN cols |-> <<rows[k], cols[j]>>]
                \o nonhint_shifts(sz, size, k + 1)

(***************************************************************************)
(* SpecShifts: a theorem size and a puzzle size, and the shifts tried      *)
(***************************************************************************)
InitShifts ==
    /\ \E sz \in GeomSizes, size \in GeomSizes :
          args = [op |-> "input", sz |-> sz, size |-> size]
    /\ NoMachine

NonhintShifts ==
    Computed([op |-> "nonhint_shifts", sz |-> args.sz, size |-> args.size,
              out |-> nonhint_shifts(args.sz, args.size, 1)])

NextShifts == NonhintShifts

SpecShifts == InitShifts /\ [][NextShifts]_vars

\* the box of a theorem of size sz shifted by d has a cell in the grid
Overlaps(sz, size, d) ==
    \E p \in GridPoints(size) :
        /\ d[1] <= p[1] /\ p[1] < d[1] + sz[1]
        /\ d[2] <= p[2] /\ p[2] < d[2] + sz[2]

\* the shifts looked at: all that could overlap and a margin around them
ShiftsAround == ((-MaxSide - 1) .. (2 * MaxSide + 1)) \X ((-MaxSide - 1) .. (2 * MaxSide + 1))

Tried == {args.out[k] : k \in DOMAIN args.out}

\* C31 as stated: the shifts tried are exactly those at which the box of the
\* theorem overlaps the grid in at least one cell.
C31_ShiftsExactlyOverlap ==
    args.op = "nonhint_shifts" =>
        Tried = {d \in ShiftsAround : Overlaps(args.sz, args.size, d)}

\* C31 amended: the shifts tried are exactly the (r, c) with
\* 1 - sr <= r <= R + sr - 2 and 1 - sc <= c <= C + sc - 2, each tried once;
\* every shift at which the box overlaps the grid is among them, and when
\* sr = 1 and sc = 1 no other shift is.
C31_Shifts ==
    args.op = "nonhint_shifts" =>
        /\ Tried = {d \in ShiftsAround :
                       /\ 1 - args.sz[1] <= d[1]
                       /\ d[1] <= args.size[1] + args.sz[1] - 2
                       /\ 1 - args.sz[2] <= d[2]
                       /\ d[2] <= args.size[2] + args.sz[2] - 2}
        /\ Cardinality(Tried) = Len(args.out)
        /\ \A d \in ShiftsAround : Overlaps(args.sz, args.size, d) => d \in Tried
        /\ args.sz = <<1, 1>> =>
              \A d \in Tried : Overlaps(args.sz, args.size, d)

\* a theorem of two rows and two columns on a puzzle of two rows: the shift
\* to the row below the grid is tried although the box is off the grid
C31_Witness ==
    /\ args.op = "nonhint_shifts"
    /\ args.sz = <<2, 2>>
    /\ args.size[1] = 2
    /\ <<2, 0>> \in Tried
    /\ ~Overlaps(args.sz, args.size, <<2, 0>>)
    /\ <<-1, -1>> \in Tried

(***************************************************************************)
(* merge_duplicate_matchers: the matchers with the same matcher set become *)
(* one matcher                                                             *)
(***************************************************************************)
MaxMergeList == 3   \* matchers in the list given to merge_duplicate_matchers

\* the key a pattern of the pool is ordered by
PoolPattern_key(x) == <<IF x.edge = "Line" THEN 0 ELSE 1, x.points[1], x.points[2]>>

\* the keys of a set of patterns, ascending, one after the other
RECURSIVE PatternSet_key(_)
PatternSet_key(S) ==
    IF S = {} THEN <<>>
    ELSE LET x == CHOOSE y \in S :
                     \A z \in S \ {y} : Lex_lt(PoolPattern_key(y), PoolPattern_key(z))
         IN PoolPattern_key(x) \o PatternSet_key(S \ {x})

SeqRange(seq) == {seq[k] : k \in DOMAIN seq}

\* Ord of TheoremMatcher: by the matcher set, then by the result
TheoremMatcher_lt(a, b) ==
    \/ Lex_lt(PatternSet_key(a.matcher), PatternSet_key(b.matcher))
    \/ /\ a.matcher = b.matcher
       /\ Lex_lt(PatternSet_key(SeqRange(a.result)), PatternSet_key(SeqRange(b.result)))

\* x put behind the elements of the sorted seq that are not greater
RECURSIVE InsertMatcher(_, _)
InsertMatcher(seq, x) ==
    IF seq = <<>> THEN <<x>>
    ELSE IF TheoremMatcher_lt(x, Head(seq)) THEN <<x>> \o seq
    ELSE <<Head(seq)>> \o InsertMatcher(Tail(seq), x)

\* matchers.sort()
RECURSIVE SortMatchers(_)
SortMatchers(seq) ==
    IF seq = <<>> THEN <<>>
    ELSE InsertMatcher(SortMatchers(SubSeq(seq, 1, Len(seq) - 1)), seq[Len(seq)])

\* the elements of seq that are not in S, in their order
RECURSIVE Without(_, _)
Without(seq, S) ==
    IF seq = <<>> THEN <<>>
    ELSE IF Head(seq) \in S THEN Without(Tail(seq), S)
    ELSE <<Head(seq)>> \o Without(Tail(seq), S \cup {Head(seq)})

\* a.merge(b): Err when the matcher sets differ, else the results are united
TheoremMatcher_merge(a, b) ==
    IF a.matcher = b.matcher
    THEN [ok |-> TRUE,
          m |-> [a EXCEPT !.result = @ \o Without(b.result, SeqRange(a.result))]]
    ELSE [ok |-> FALSE, m |-> a]

\* the loop of merge_duplicate_matchers from the read position r (counted
\* from 1) with w entries kept, and the truncation
RECURSIVE merge_loop(_, _, _)
merge_loop(seq, r, w) ==
    IF r > Len(seq) THEN SubSeq(seq, 1, Min2(w, Len(seq)))
    ELSE LET merged == TheoremMatcher_merge(seq[w], seq[r])
         IN IF merged.ok
            THEN merge_loop([seq EXCEPT ![w] = merged.m], r + 1, w)
            ELSE merge_loop([seq EXCEPT ![w + 1] = seq[r], ![r] = seq[w + 1]],
                            r + 1, w + 1)

\* merge_duplicate_matchers without the sort
merge_duplicate_matchers_unsorted(matchers) == merge_loop(matchers, 2, 1)

merge_duplicate_matchers(matchers) == merge_loop(SortMatchers(matchers), 2, 1)

(***************************************************************************)
(* SpecMerge: a list of matchers, and merge_duplicate_matchers of it       *)
(***************************************************************************)
RECURSIVE ListsUpTo(_, _)
ListsUpTo(S, k) ==
    IF k = 0 THEN {<<>>}
    ELSE LET shorter == ListsUpTo(S, k - 1)
         IN shorter \cup {Append(l, x) : l \in shorter, x \in S}

InitMerge ==
    /\ \E matchers \in ListsUpTo(TheoremMatchersOn(EdgesMatcherPairs, EdgesResults),
                                 MaxMergeList) :
          args = [op |-> "input", matchers |-> matchers]
    /\ NoMachine

MergeDuplicateMatchers ==
    Computed([op |-> "merge_duplicate_matchers", matchers |-> args.matchers,
              out |-> merge_duplicate_matchers(args.matchers)])

NextMerge == MergeDuplicateMatchers

SpecMerge == InitMerge /\ [][NextMerge]_vars

\* C36: after merge_duplicate_matchers no two entries have the same matcher
\* set, the matcher sets of the list are those it had before, the result of
\* each entry is the union of the results of the entries given that had its
\* matcher set, and a list of at most one entry is returned as it was.
C36_MergeDuplicates ==
    args.op = "merge_duplicate_matchers" =>
        LET in == args.matchers
            out == args.out
        IN /\ \A i, j \in DOMAIN out : out[i].matcher = out[j].matcher => i = j
           /\ {out[i].matcher : i \in DOMAIN out} = {in[i].matcher : i \in DOMAIN in}
           /\ \A i \in DOMAIN out :
                 SeqRange(out[i].result) =
                     UNION {SeqRange(in[k].result) :
                               k \in {n \in DOMAIN in : in[n].matcher = out[i].matcher}}
           /\ Len(in) <= 1 => out = in

\* three matchers were given, the first and the last with the same matcher
\* set and different results and another between them: two are left, one of
\* them with both results
C36_Witness ==
    /\ args.op = "merge_duplicate_matchers"
    /\ Len(args.matchers) = MaxMergeList
    /\ args.matchers[1].matcher = args.matchers[MaxMergeList].matcher
    /\ args.matchers[1].result # args.matchers[MaxMergeList].result
    /\ \E k \in DOMAIN args.matchers : args.matchers[k].matcher # args.matchers[1].matcher
    /\ Len(args.out) = MaxMergeList - 1
    /\ \E i \in DOMAIN args.out : Cardinality(SeqRange(args.out[i].result)) > 1

(***************************************************************************)
(* SpecValidate: a Solver whose cells and edges are fixed one at a time,   *)
(* and validate_result of it                                               *)
(***************************************************************************)
ValidateSizes == {<<1, 2>>, <<2, 2>>}

InitValidate ==
    /\ \E size \in ValidateSizes : side_map = SideMap_new(size)
    /\ ret = <<>>
    /\ known = <<>>
    /\ pool = <<>>
    /\ calls = <<>>
    /\ events = <<>>
    /\ puzzle = <<>>
    /\ driver = <<>>
    /\ probe = <<>>
    /\ args = <<>>

ValidateCalled(sm, r) ==
    /\ side_map' = sm
    /\ ret' = <<r>>
    /\ UNCHANGED <<known, pool, calls, events, puzzle, driver, probe, args>>

ValidateSetInside ==
    \E id \in 1 .. (cell_len(side_map.size) - 1) :
        ValidateCalled(Solver_set_inside(side_map, id), [op |-> "set_inside"])

ValidateSetOutside ==
    \E id \in 1 .. (cell_len(side_map.size) - 1) :
        ValidateCalled(Solver_set_outside(side_map, id), [op |-> "set_outside"])

ValidateSetEdge ==
    \E i, j \in 0 .. (cell_len(side_map.size) - 1), e \in Edges :
        /\ Adjacent(side_map.size, i, j)
        /\ ValidateCalled(set_edge(side_map, i, j, e).sm, [op |-> "set_edge"])

ValidateResult ==
    ValidateCalled(side_map, [op |-> "validate_result", ok |-> validate_result(side_map)])

NextValidate ==
    \/ ValidateSetInside
    \/ ValidateSetOutside
    \/ ValidateSetEdge
    \/ ValidateResult

SpecValidate == InitValidate /\ [][NextValidate]_vars

\* the cells reached from the cells of S over edges whose two cells are known
\* to be on the same side
RECURSIVE SameSideClosure(_, _)
SameSideClosure(sm, S) ==
    LET more == S \cup {j \in 0 .. (cell_len(sm.size) - 1) :
                          \E i \in S : /\ Adjacent(sm.size, i, j)
                                       /\ SideMapInner_is_same(sm, i, j)}
    IN IF more = S THEN S ELSE SameSideClosure(sm, more)

\* the same-side regions of the board, the outside cell among the cells
SameSideRegions(sm) ==
    {SameSideClosure(sm, {i}) : i \in 0 .. (cell_len(sm.size) - 1)}

\* some two cells are known to be on the same side and on different sides
Contradictory(sm) ==
    \E i, j \in 0 .. (cell_len(sm.size) - 1) :
        SideMapInner_is_same(sm, i, j) /\ SideMapInner_is_different(sm, i, j)

\* C37: validate_result returns Ok iff the sides are free of contradiction
\* (the sync succeeds) and the board has exactly two same-side regions;
\* otherwise it returns the invalid-board error.
C37_ValidateResult ==
    (ret # <<>> /\ ret[1].op = "validate_result") =>
        (ret[1].ok <=> (~Contradictory(side_map)
                          /\ Cardinality(SameSideRegions(side_map)) = 2))

\* every cell is Out, nothing is contradictory, the board is one region and
\* validate_result returned the error
C37_Witness ==
    /\ ret # <<>>
    /\ ret[1].op = "validate_result"
    /\ ~ret[1].ok
    /\ ~Contradictory(side_map)
    /\ \A id \in 1 .. (cell_len(side_map.size) - 1) :
          Solver_get_side(side_map, id) = "Out"
    /\ Cardinality(SameSideRegions(side_map)) = 1

\* validate_result returned Ok: the board has exactly two regions
C37_OkWitness ==
    /\ ret # <<>>
    /\ ret[1].op = "validate_result"
    /\ ret[1].ok
    /\ Cardinality(SameSideRegions(side_map)) = 2

(***************************************************************************)
(* The soundness of mark_common (checked under SpecCommon)                 *)
(***************************************************************************)
\* the same and different relations that sm holds between the cells
Relations(sm) ==
    {r \in (0 .. (cell_len(sm.size) - 1)) \X (0 .. (cell_len(sm.size) - 1))
              \X {"Same", "Different"} :
        IF r[3] = "Same" THEN SideMapInner_is_same(sm, r[1], r[2])
        ELSE SideMapInner_is_different(sm, r[1], r[2])}

\* C38: when every relation of the parent holds in both branches before
\* mark_common, every relation of the parent after it holds in both
\* branches, and the call leaves the relations of the two branches as they
\* were.
C38_MarkCommonSound ==
    [][(args.op = "split" /\ args'.op = "mark_common") =>
          /\ Relations(args'.s0) = Relations(args.s0)
          /\ Relations(args'.s1) = Relations(args.s1)
          /\ (/\ Relations(side_map) \subseteq Relations(args.s0)
              /\ Relations(side_map) \subseteq Relations(args.s1))
                => /\ Relations(side_map') \subseteq Relations(args'.s0)
                   /\ Relations(side_map') \subseteq Relations(args'.s1)]_vars

\* the parent held nothing that a branch did not hold, the branches hold
\* different relations, and mark_common gave the parent a relation it did
\* not have, though not all those of a branch
C38_Witness ==
    /\ args.op = "mark_common"
    /\ Relations(args.before) \subseteq Relations(args.s0)
    /\ Relations(args.before) \subseteq Relations(args.s1)
    /\ Relations(args.s0) # Relations(args.s1)
    /\ Relations(side_map) # Relations(args.before)
    /\ Relations(side_map) \subseteq Relations(args.s0) \cap Relations(args.s1)
    /\ Relations(side_map) # Relations(args.s0)
    /\ Relations(side_map) # Relations(args.s1)

(***************************************************************************)
(* The passes of TheoremPool::new over the matcher list, repeated until    *)
(* one leaves the revision as it was                                       *)
(***************************************************************************)
MaxFixList == 2     \* matchers in the list that create_matcher_list returns
MaxFixSetup == 2    \* edges fixed while the list is created

\* m.matches(side_map): Err when an edge of the matcher is in Conflict,
\* Conflict when one is known to be of the other kind, Complete with the
\* result when all are known to be as the matcher has them, else Partial
\* with the matcher of the edges still unknown
TheoremMatcher_matches(m, sm) ==
    LET state(pat) == get_edge(sm, pat.points[1], pat.points[2])
        unknown == {pat \in m.matcher : state(pat) = "Unknown"}
    IN IF \E pat \in m.matcher : state(pat) = "Conflict" THEN [kind |-> "Err"]
       ELSE IF \E pat \in m.matcher : state(pat) \notin {"Unknown", pat.edge}
       THEN [kind |-> "Conflict"]
       ELSE IF unknown = {} THEN [kind |-> "Complete", result |-> m.result]
       ELSE [kind |-> "Partial", theo |-> [m EXCEPT !.matcher = unknown]]

\* apply_all_theorem from the read position r (counted from 1): out is the
\* matchers written so far; after an error the list is dropped
RECURSIVE apply_all_theorem_loop(_, _, _, _)
apply_all_theorem_loop(matchers, sm, r, out) ==
    IF r > Len(matchers) THEN [ok |-> TRUE, matchers |-> out, side_map |-> sm]
    ELSE LET res == TheoremMatcher_matches(matchers[r], sm)
         IN IF res.kind = "Err"
            THEN [ok |-> FALSE, matchers |-> <<>>, side_map |-> sm]
            ELSE IF res.kind = "Complete"
            THEN apply_all_theorem_loop(matchers, ApplyResult(sm, res.result, 1),
                                        r + 1, out)
            ELSE IF res.kind = "Partial"
            THEN apply_all_theorem_loop(matchers, sm, r + 1, Append(out, res.theo))
            ELSE apply_all_theorem_loop(matchers, sm, r + 1, out)

apply_all_theorem(matchers, sm) == apply_all_theorem_loop(matchers, sm, 1, <<>>)

\* the loop that stops after its first pass
fixpoint_continue_never(rev, sm) == FALSE

\* side_map.revision() != rev: another pass follows
fixpoint_continue(rev, sm) == revision(sm) # rev

(***************************************************************************)
(* SpecFixpoint: the matcher list is created while some edges are fixed,   *)
(* then the passes run until the loop breaks or a pass fails               *)
(***************************************************************************)
InitFixpoint ==
    /\ side_map = SideMap_new(EdgesSize)
    /\ \E matchers \in ListsUpTo(TheoremMatchersOn(EdgesMatcherPairs, EdgesResults),
                                 MaxFixList) :
          args = [op |-> "create", matchers |-> matchers, setup |-> 0, passes |-> 0,
                  rev |-> 0]
    /\ ret = <<>>
    /\ known = <<>>
    /\ pool = <<>>
    /\ calls = <<>>
    /\ events = <<>>
    /\ puzzle = <<>>
    /\ driver = <<>>
    /\ probe = <<>>

FixpointCalled(sm, a) ==
    /\ side_map' = sm
    /\ args' = a
    /\ UNCHANGED <<ret, known, pool, calls, events, puzzle, driver, probe>>

\* create_matcher_list applies the result of a placement that is Complete
FixpointCreate ==
    \E pat \in EdgesResults :
        /\ args.op = "create"
        /\ args.setup < MaxFixSetup
        /\ FixpointCalled(EdgePattern_apply(side_map, pat),
                          [args EXCEPT !.setup = @ + 1])

\* one turn of the loop
FixpointPass ==
    /\ args.op \in {"create", "loop"}
    /\ \E r \in {apply_all_theorem(args.matchers, side_map)} :
          FixpointCalled(r.side_map,
              [args EXCEPT !.op = IF ~r.ok THEN "err"
                                  ELSE IF fixpoint_continue(revision(side_map),
                                                            r.side_map)
                                  THEN "loop"
                                  ELSE "break",
                           !.matchers = r.matchers,
                           !.passes = @ + 1,
                           !.rev = revision(side_map)])

NextFixpoint ==
    \/ FixpointCreate
    \/ FixpointPass

\* the loop is not held up between two passes
SpecFixpoint == InitFixpoint /\ [][NextFixpoint]_vars /\ WF_vars(FixpointPass)

\* C35: the loop terminates, and where it breaks one more pass would keep
\* the revision.  Every pass that is followed by another has raised the
\* revision, which never exceeds the number of nodes of the SideMap less one,
\* so the passes are at most one more than the revision; while the loop runs
\* a pass can always be taken (FixpointPass is enabled, and is not held up);
\* once the loop has broken or a pass has failed no step follows; and when
\* it has broken, a further pass over the matchers left returns Ok and keeps
\* the revision.
C35_Fixpoint ==
    /\ [][(args'.passes > args.passes /\ args'.op = "loop") =>
             revision(side_map') > revision(side_map)]_vars
    /\ [](revision(side_map) <= 2 * cell_len(side_map.size) - 1)
    /\ [](args.passes <= revision(side_map) + 1)
    /\ [](args.op \in {"create", "loop", "break", "err"})
    /\ [][args.op \in {"create", "loop"}]_vars
    /\ [](args.op = "break" =>
             LET further == apply_all_theorem(args.matchers, side_map)
             IN further.ok /\ revision(further.side_map) = revision(side_map))

\* the loop has broken after three passes: two changed the revision, each
\* firing a matcher that the pass before had left Partial
C35_Witness ==
    /\ args.op = "break"
    /\ args.passes = 3
    /\ args.setup = 1
    /\ revision(side_map) = 3
    /\ args.matchers = <<>>

\* a pass has failed on an edge in Conflict
C35_ErrWitness ==
    /\ args.op = "err"
    /\ args.matchers = <<>>
====
